---- MODULE Spec2Model ----
(***************************************************************************)
(* A model of the EPG merge application (di5cord20/epg-merge, backend):    *)
(*   - the job controller   (services/job_service.py, routers/jobs.py)     *)
(*   - the merge engine     (MergeService._merge_xml_files)                *)
(*   - the archive store    (MergeService.save_merge)                      *)
(*   - the source cache     (MergeService._download_sources)               *)
(* Every subsystem has its own specification over the shared variables.    *)
(***************************************************************************)
EXTENDS Integers, Sequences, FiniteSets, TLC

VARIABLES
    now,             \* wall clock, in ticks (TicksPerSecond ticks per second)
    settings,        \* the settings rows the core reads (SettingsService.get_all)
    edits,           \* number of settings changes so far
    tmp_dir,         \* /data/tmp      : file name -> file
    current_dir,     \* /data/current  : file name -> file
    archive_dir,     \* /data/archives : file name -> file
    archives,        \* table archives : file name -> metadata row
    merges,          \* number of merged outputs written so far (content ids)
    promotions,      \* number of successful save_merge calls so far
    xm,              \* position of the /api/merge/execute handler
    sweep,           \* the last cleanup_old_archives call: <<argument, deleted>>
    saved,           \* the answer of the last POST /api/merge/save
    up,              \* the process is running and its startup event has run
    is_job_running,  \* ScheduledJobService.is_job_running
    current_job_task,\* ScheduledJobService.current_job_task (None or a task)
    job_history,     \* table job_history : job_id -> row
    sched,           \* position of the scheduler task (_run_scheduler)
    req,             \* position of every on-demand request handler
    last_resp,       \* the last answer of an endpoint of routers/jobs.py
    att,             \* the attempt (execute_scheduled_merge) each task runs
    attempts,        \* the job ids of the attempts started, in order
    crashes,         \* number of process crashes so far
    jumps,           \* number of long waits so far
    m_keep,          \* merge engine: the keep-list (argument channels)
    m_src,           \* merge engine: position in the source list and file
    m_acc,           \* merge engine: merged_root, channels_seen, programmes_seen
    m_snap,          \* merge engine: the counts when the previous file ended
    m_res,           \* merge engine: result of _merge_xml_files (or "none")
    cache_dir,       \* /data/epg_cache : source -> cached file (or absent)
    srcs,            \* the source list handed to _download_sources
    dl,              \* state of the running/finished _download_sources call
    settings_table,  \* table settings : key -> value, for the keys of StoreKeys
    last_get,        \* what the last read of a setting returned
    cron_cfg,        \* the settings merge_schedule, merge_time, merge_days
    loop             \* _run_scheduler: its position and its local variables

jobVars   == <<up, is_job_running, current_job_task, job_history, sched, req,
               last_resp, att, attempts, crashes, jumps>>
fsVars    == <<tmp_dir, current_dir, archive_dir, archives, merges, promotions,
               xm, sweep, saved>>
mergeVars == <<m_keep, m_src, m_acc, m_snap, m_res>>
cacheVars == <<cache_dir, srcs, dl>>
storeVars == <<settings_table, last_get>>
timerVars == <<cron_cfg, loop>>
vars == <<now, settings, edits, jobVars, fsVars, mergeVars, cacheVars,
         storeVars, timerVars>>

(***************************************************************************)
(* Bounds of the model.                                                    *)
(***************************************************************************)
TicksPerSecond == 2
MaxNow      == 2
MaxEdits    == 2
MaxMerges   == 2
MaxPromotions == 3
MaxAttempts == 2
MaxRequests == 2
MaxCrashes  == 2
MaxJumps    == 2
MaxElems    == 2
MaxFiles    == 2
MaxSources  == 2
MaxMinutes  == 6

NoValue == "none"

(***************************************************************************)
(* Time.  datetime.now() has sub-second resolution; strftime("%Y%m%d_%H%M%S")*)
(* keeps the whole second, isoformat() keeps the fraction unless it is 0.  *)
(***************************************************************************)
Strftime(t) == t \div TicksPerSecond

IsoFormat(t) ==
    IF t % TicksPerSecond = 0 THEN <<t \div TicksPerSecond>>
    ELSE <<t \div TicksPerSecond, t % TicksPerSecond>>

\* comparison of two isoformat strings, as SQLite compares TEXT
IsoLess(a, b) ==
    \/ a[1] < b[1]
    \/ /\ a[1] = b[1]
       /\ \/ Len(a) < Len(b)
          \/ Len(a) = 2 /\ Len(b) = 2 /\ a[2] < b[2]

\* one tick of the clock; MaxNow bounds the ticks between two long waits
Tick ==
    /\ now % (60 * TicksPerSecond) < MaxNow
    /\ now' = now + 1
    /\ UNCHANGED <<settings, edits, jobVars, fsVars, mergeVars, cacheVars,
                   storeVars, timerVars>>

(***************************************************************************)
(* SETTINGS.  SettingsService.get_all(): the rows of the settings table    *)
(* over DEFAULTS.  Only what the core reads is kept:                       *)
(*   sources  : selected_sources is a non-empty JSON list ("ok"), the      *)
(*              empty list ("empty") or not JSON ("bad")                   *)
(*   timeout  : merge_timeout is a positive int ("ok"), an int that is 0   *)
(*              or negative ("zero"), or does not parse as an int ("bad")  *)
(*   webhook  : discord_webhook is set                                     *)
(*   output_filename                                                       *)
(***************************************************************************)
SettingsDefaults ==
    [sources |-> "empty", timeout |-> "ok", webhook |-> FALSE,
     output_filename |-> [stem |-> "merged", ext |-> "xml.gz", ts |-> <<>>]]

SettingValues(k) ==
    CASE k = "sources" -> {"ok", "empty", "bad"}
      [] k = "timeout" -> {"ok", "zero", "bad"}
      [] k = "webhook" -> BOOLEAN
      [] k = "output_filename" ->
            {[stem |-> "merged", ext |-> "xml.gz", ts |-> <<>>],
             [stem |-> "guide", ext |-> "xml.gz", ts |-> <<>>],
             [stem |-> "guide", ext |-> "xml", ts |-> <<>>]}

\* POST /api/settings/set with one key: SettingsService.set(key, value)
SetSetting(k, v) ==
    /\ edits < MaxEdits
    /\ settings[k] # v
    /\ settings' = [settings EXCEPT ![k] = v]
    /\ edits' = edits + 1
    /\ UNCHANGED <<now, jobVars, fsVars, mergeVars, cacheVars, storeVars, timerVars>>

(***************************************************************************)
(* MERGE ENGINE: MergeService._merge_xml_files                             *)
(* An element is what ET.iterparse yields at an 'end' event.  title is     *)
(* "absent" (no <title> child), "empty" (<title/>, text None) or the text. *)
(* tag "error" stands for the ParseError iterparse raises at that point.   *)
(***************************************************************************)
ChannelIds == {"c1", "c2"}

Elem(tag, id, title) == [tag |-> tag, id |-> id, title |-> title, rest |-> "a"]

\* an element with the same tag, id and title whose other children differ
Other(e) == [e EXCEPT !.rest = "b"]

Elems ==
    {Elem("channel", c, "absent") : c \in ChannelIds}
    \cup {Elem("programme", "c1", t) : t \in {"News", "absent", "empty"}}
    \cup {Elem("programme", "c2", "News"), Elem("other", "c1", "absent"),
          Elem("error", "c1", "absent")}
    \cup {Other(Elem("channel", "c1", "absent")),
          Other(Elem("programme", "c1", "News"))}

\* title = title_elem.text if title_elem is not None else ''
TitleKey(e) ==
    CASE e.title = "absent" -> ""
      [] e.title = "empty"  -> "None"
      [] OTHER              -> e.title

\* key = (ch_id, elem.get('start', ''), title)
ProgrammeKey(e) == <<e.id, "start", TitleKey(e)>>

EmptyAcc == [root |-> <<>>, channels_seen |-> {}, programmes_seen |-> {}]

\* the body of the iterparse loop for one element
ConsiderChannelBug(acc, e, keep) ==
    CASE e.tag = "channel" ->
            IF e.id \in keep
            THEN [acc EXCEPT !.root = Append(@, e),
                             !.channels_seen = @ \cup {e.id}]
            ELSE acc
      [] e.tag = "programme" ->
            IF e.id \in acc.channels_seen
            THEN IF ProgrammeKey(e) \notin acc.programmes_seen
                 THEN [acc EXCEPT !.root = Append(@, e),
                                  !.programmes_seen = @ \cup {ProgrammeKey(e)}]
                 ELSE acc
            ELSE acc
      [] OTHER -> acc

ConsiderProgrammeBug(acc, e, keep) ==
    CASE e.tag = "channel" ->
            IF e.id \in keep /\ e.id \notin acc.channels_seen
            THEN [acc EXCEPT !.root = Append(@, e),
                             !.channels_seen = @ \cup {e.id}]
            ELSE acc
      [] e.tag = "programme" ->
            IF e.id \in acc.channels_seen
            THEN [acc EXCEPT !.root = Append(@, e),
                             !.programmes_seen = @ \cup {ProgrammeKey(e)}]
            ELSE acc
      [] OTHER -> acc

ConsiderBug(acc, e, keep) ==
    CASE e.tag = "channel" ->
            IF e.id \in keep /\ e.id \notin acc.channels_seen
            THEN [acc EXCEPT !.root = Append(@, e),
                             !.channels_seen = @ \cup {e.id}]
            ELSE acc
      [] e.tag = "programme" ->
            IF e.id \in keep /\ ProgrammeKey(e) \notin acc.programmes_seen
            THEN [acc EXCEPT !.root = Append(@, e),
                             !.programmes_seen = @ \cup {ProgrammeKey(e)}]
            ELSE acc
      [] OTHER -> acc

ConsiderElement(acc, e, keep) ==
    CASE e.tag = "channel" ->
            IF e.id \in keep /\ e.id \notin acc.channels_seen
            THEN [acc EXCEPT !.root = Append(@, e),
                             !.channels_seen = @ \cup {e.id}]
            ELSE acc
      [] e.tag = "programme" ->
            IF e.id \in acc.channels_seen
            THEN IF ProgrammeKey(e) \notin acc.programmes_seen
                 THEN [acc EXCEPT !.root = Append(@, e),
                                  !.programmes_seen = @ \cup {ProgrammeKey(e)}]
                 ELSE acc
            ELSE acc
      [] OTHER -> acc

Counts(acc) == [channels_included |-> Cardinality(acc.channels_seen),
                programs_included |-> Cardinality(acc.programmes_seen)]

\* m_src.pos: "between" files, "open" (inside the with-block), "done"
\* m_src.n: entries of the source list opened so far
\* m_src.cur: the elements the current (or last) file has yielded so far
\* m_src.again: the current entry names the same file as the entry before it
\* m_src.todo: when again, the elements the file still yields
MergeInit ==
    /\ m_keep \in SUBSET ChannelIds
    /\ m_src = [pos |-> "between", n |-> 0, cur |-> <<>>, again |-> FALSE,
                todo |-> <<>>]
    /\ m_acc = EmptyAcc
    /\ m_snap = Counts(EmptyAcc)
    /\ m_res = NoValue

MergeIdle ==
    /\ m_keep = {}
    /\ m_src = [pos |-> "done", n |-> 0, cur |-> <<>>, again |-> FALSE,
                todo |-> <<>>]
    /\ m_acc = EmptyAcc
    /\ m_snap = Counts(EmptyAcc)
    /\ m_res = NoValue

MergeFrame == UNCHANGED <<now, settings, edits, jobVars, fsVars, cacheVars,
                          storeVars, timerVars>>

\* for filepath in files: open the next file of the list, a file not seen yet
MergeOpenFile ==
    /\ m_src.pos = "between"
    /\ m_src.n < MaxFiles
    /\ m_src' = [pos |-> "open", n |-> m_src.n + 1, cur |-> <<>>,
                 again |-> FALSE, todo |-> <<>>]
    /\ m_snap' = Counts(m_acc)
    /\ UNCHANGED <<m_keep, m_acc, m_res>>
    /\ MergeFrame

\* for filepath in files: the next entry is the path of the file just read
MergeOpenSame ==
    /\ m_src.pos = "between"
    /\ m_src.n >= 1
    /\ m_src.n < MaxFiles
    /\ m_src' = [pos |-> "open", n |-> m_src.n + 1, cur |-> <<>>,
                 again |-> TRUE, todo |-> m_src.cur]
    /\ m_snap' = Counts(m_acc)
    /\ UNCHANGED <<m_keep, m_acc, m_res>>
    /\ MergeFrame

\* one iteration of the iterparse loop; a ParseError leaves the with-block and
\* is caught by the except of the for body: the rest of the file is skipped
MergeElem(e) ==
    /\ m_src.pos = "open"
    /\ IF m_src.again
       THEN m_src.todo # <<>> /\ e = Head(m_src.todo)
       ELSE Len(m_src.cur) < MaxElems
    /\ m_acc' = ConsiderElement(m_acc, e, m_keep)
    /\ m_src' = [m_src EXCEPT
                    !.cur = Append(@, e),
                    !.todo = IF m_src.again THEN Tail(@) ELSE @,
                    !.pos = IF e.tag = "error" THEN "between" ELSE @]
    /\ UNCHANGED <<m_keep, m_snap, m_res>>
    /\ MergeFrame

\* iterparse is exhausted: the file ends
MergeEndFile ==
    /\ m_src.pos = "open"
    /\ m_src.again => m_src.todo = <<>>
    /\ m_src' = [m_src EXCEPT !.pos = "between"]
    /\ UNCHANGED <<m_keep, m_acc, m_snap, m_res>>
    /\ MergeFrame

\* after the loop: the tree is written and the counts are returned
MergeWrite ==
    /\ m_src.pos = "between"
    /\ m_src.n >= 1
    /\ m_res' = Counts(m_acc)
    /\ m_src' = [m_src EXCEPT !.pos = "done"]
    /\ UNCHANGED <<m_keep, m_acc, m_snap>>
    /\ MergeFrame

MergeNext ==
    \/ MergeOpenFile
    \/ MergeOpenSame
    \/ \E e \in Elems : MergeElem(e)
    \/ MergeEndFile
    \/ MergeWrite

(***************************************************************************)
(* FILES.  A file name is stem + extension (+ the timestamp suffix of an   *)
(* archived file); a file is its modification time and its content, the    *)
(* content being the number of the merge that wrote it.                    *)
(***************************************************************************)
Name(stem, ext) == [stem |-> stem, ext |-> ext, ts |-> <<>>]

\* SettingsService.DEFAULTS["output_filename"], data.get('output_filename', ..)
DefaultOutput == Name("merged", "xml.gz")

\* the values validate_output_filename accepts: *.xml and *.xml.gz
OutputFilenames == {DefaultOutput, Name("guide", "xml.gz"), Name("guide", "xml")}

GlobXmlGz(n)     == n.ext = "xml.gz" /\ n.ts = <<>>     \* glob("*.xml.gz")
GlobXmlGzStar(n) == n.ext = "xml.gz"                    \* glob("*.xml.gz*")
GlobArchived(n)  == n.ext = "xml.gz" /\ n.ts # <<>>     \* glob("*.xml.gz.*")

\* f"{existing_file.name}.{timestamp}", timestamp = strftime of the mtime
ArchiveName(n, mtime) == [n EXCEPT !.ts = <<Strftime(mtime)>>]

EmptyDir == [n \in {} |-> NoValue]
Put(dir, n, f) == [x \in DOMAIN dir \cup {n} |-> IF x = n THEN f ELSE dir[x]]
Remove(dir, S) == [x \in DOMAIN dir \ S |-> dir[x]]

File(mtime, content) == [mtime |-> mtime, content |-> content]
Row(counts, size)    == [counts |-> counts, size |-> size]

\* execute_merge, STEP 0: for file in tmp_dir.glob("*.xml.gz*"): file.unlink()
ClearTemp(tmp) == Remove(tmp, {n \in DOMAIN tmp : GlobXmlGzStar(n)})

\* ArchiveService.save_archive_metadata: a row is written only for a file that
\* is in the current or in the archive directory
SaveArchiveMetadata(rows, cur, arch, n, counts) ==
    IF n \in DOMAIN cur THEN Put(rows, n, Row(counts, cur[n].content))
    ELSE IF n \in DOMAIN arch THEN Put(rows, n, Row(counts, arch[n].content))
    ELSE rows

\* The files save_merge moves: current_dir.glob("*.xml.gz")
Existing(cur) == {n \in DOMAIN cur : GlobXmlGz(n)}

\* save_merge with the existence check of the temp file after STEP 1
SaveMergeBug(tmp, cur, arch, rows, fname, counts) ==
    LET moved == {n \in DOMAIN cur : GlobXmlGz(n)}
        dest(n) == ArchiveName(n, cur[n].mtime)
        dests == {dest(n) : n \in moved}
        src(a) == CHOOSE n \in moved : dest(n) = a
        arch2 == [a \in DOMAIN arch \cup dests |->
                    IF a \in dests THEN cur[src(a)] ELSE arch[a]]
        rows2 == [a \in DOMAIN rows \cup dests |->
                    IF a \in dests
                    THEN Row(IF src(a) \in DOMAIN rows THEN rows[src(a)].counts
                             ELSE 0, cur[src(a)].content)
                    ELSE rows[a]]
    IN  IF fname \notin DOMAIN tmp
        THEN [ok |-> FALSE, current |-> Remove(cur, moved), archive |-> arch2,
              rows |-> rows2, tmp |-> tmp]
        ELSE [ok |-> TRUE, current |-> Put(Remove(cur, moved), fname, tmp[fname]),
              archive |-> arch2,
              rows |-> Put(rows2, fname, Row(counts, tmp[fname].content)),
              tmp |-> tmp]

\* save_merge with STEP 2 moving the temp file instead of copying it
SaveMergeMoveBug(tmp, cur, arch, rows, fname, counts) ==
    LET moved == {n \in DOMAIN cur : GlobXmlGz(n)}
        dest(n) == ArchiveName(n, cur[n].mtime)
        dests == {dest(n) : n \in moved}
        src(a) == CHOOSE n \in moved : dest(n) = a
        arch2 == [a \in DOMAIN arch \cup dests |->
                    IF a \in dests THEN cur[src(a)] ELSE arch[a]]
        rows2 == [a \in DOMAIN rows \cup dests |->
                    IF a \in dests
                    THEN Row(IF src(a) \in DOMAIN rows THEN rows[src(a)].counts
                             ELSE 0, cur[src(a)].content)
                    ELSE rows[a]]
    IN  IF fname \notin DOMAIN tmp
        THEN [ok |-> FALSE, current |-> cur, archive |-> arch, rows |-> rows,
              tmp |-> tmp]
        ELSE [ok |-> TRUE, current |-> Put(Remove(cur, moved), fname, tmp[fname]),
              archive |-> arch2,
              rows |-> Put(rows2, fname, Row(counts, tmp[fname].content)),
              tmp |-> Remove(tmp, {fname})]

\* MergeService.save_merge(data) on the directories and the archives table;
\* fname is get_output_filename(), counts is what data carries.
\* ok = FALSE is the FileNotFoundError of the first check: nothing changes.
\* tmp is the temp directory afterwards: STEP 2 copies, the source stays.
SaveMerge(tmp, cur, arch, rows, fname, counts) ==
    LET moved == Existing(cur)
        dest(n) == ArchiveName(n, cur[n].mtime)
        dests == {dest(n) : n \in moved}
        src(a) == CHOOSE n \in moved : dest(n) = a
        \* shutil.move: os.rename replaces a file already at the destination
        arch2 == [a \in DOMAIN arch \cup dests |->
                    IF a \in dests THEN cur[src(a)] ELSE arch[a]]
        \* the archived file's row: the counts of the row of the current name
        rows2 == [a \in DOMAIN rows \cup dests |->
                    IF a \in dests
                    THEN Row(IF src(a) \in DOMAIN rows THEN rows[src(a)].counts
                             ELSE 0, cur[src(a)].content)
                    ELSE rows[a]]
        \* shutil.copy2 keeps the modification time of the temp file
        cur2 == Put(Remove(cur, moved), fname, tmp[fname])
        rows3 == Put(rows2, fname, Row(counts, tmp[fname].content))
    IN  IF fname \notin DOMAIN tmp
        THEN [ok |-> FALSE, current |-> cur, archive |-> arch, rows |-> rows,
              tmp |-> tmp]
        ELSE [ok |-> TRUE, current |-> cur2, archive |-> arch2, rows |-> rows3,
              tmp |-> tmp]

\* the body of POST /api/merge/execute as execute_merge reads it: sources
\* and channels are non-empty lists (TRUE) or empty, timeframe and feed_type
\* are the strings given, output_filename the name of the temp output
MergeData ==
    [sources : BOOLEAN, channels : BOOLEAN, timeframe : {"3", "99"},
     feed_type : {"iptv", "bogus"}, output_filename : OutputFilenames]

\* a body that passes the checks, as the web client sends it
GoodData(f) == [sources |-> TRUE, channels |-> TRUE, timeframe |-> "3",
                feed_type |-> "iptv", output_filename |-> f]

NoData == [sources |-> FALSE, channels |-> FALSE, timeframe |-> "3",
           feed_type |-> "iptv", output_filename |-> DefaultOutput]

\* execute_merge, the checks before STEP 0:
\*   if not sources or not channels: raise ValueError
\*   if int(timeframe) not in [3, 7, 14]: raise ValueError
ValidMergeDataBug(data) ==
    data.sources /\ data.channels

ValidMergeData(data) ==
    /\ data.sources /\ data.channels
    /\ data.timeframe \in {"3", "7", "14"}

\* _download_sources:
\*   folder = folder_map.get(timeframe, {}).get(feed_type, "3dayiptv")
Folder(timeframe, feed_type) ==
    IF timeframe \in {"3", "7", "14"} /\ feed_type \in {"iptv", "gracenote"}
    THEN <<timeframe, "day", feed_type>>
    ELSE <<"3", "day", "iptv">>

FsInit ==
    /\ tmp_dir = EmptyDir
    /\ current_dir = EmptyDir
    /\ archive_dir = EmptyDir
    /\ archives = EmptyDir
    /\ merges = 0
    /\ promotions = 0
    /\ xm = [pc |-> "idle", data |-> NoData, folder |-> <<>>,
             answer |-> NoValue]
    /\ sweep = <<>>
    /\ saved = NoValue

ApiFrame == UNCHANGED <<now, settings, edits, jobVars, mergeVars, cacheVars,
                        storeVars, timerVars>>

\* POST /api/merge/execute, up to the first await of _download_sources: the
\* arguments are validated, the temp directory is cleared, and
\* _download_sources picks the folder of its base_url.  A ValueError of the
\* validation is answered 400.  xm.data is the body of the last request.
ApiExecuteMerge(data) ==
    /\ xm.pc = "idle"
    /\ IF ValidMergeData(data)
       THEN /\ merges < MaxMerges
            /\ xm' = [pc |-> "downloading", data |-> data,
                      folder |-> Folder(data.timeframe, data.feed_type),
                      answer |-> NoValue]
            /\ tmp_dir' = ClearTemp(tmp_dir)
       ELSE /\ xm' = [pc |-> "idle", data |-> data, folder |-> <<>>,
                      answer |-> "invalid"]
            /\ tmp_dir' = tmp_dir
    /\ UNCHANGED <<current_dir, archive_dir, archives, merges, promotions,
                   sweep, saved>>
    /\ ApiFrame

\* POST /api/merge/execute, from the last download on: _merge_xml_files writes
\* tmp_dir / output_filename, and the router saves the metadata of the result
ApiMergeWritten ==
    /\ xm.pc = "downloading"
    /\ merges' = merges + 1
    /\ tmp_dir' = Put(tmp_dir, xm.data.output_filename, File(now, merges'))
    /\ archives' = SaveArchiveMetadata(archives, current_dir, archive_dir,
                                       xm.data.output_filename, merges')
    /\ xm' = [xm EXCEPT !.pc = "idle", !.answer = "ok"]
    /\ UNCHANGED <<current_dir, archive_dir, promotions, sweep, saved>>
    /\ ApiFrame

\* POST /api/merge/execute: no source was obtained, execute_merge raises
ApiMergeFails ==
    /\ xm.pc = "downloading"
    /\ xm' = [xm EXCEPT !.pc = "idle", !.answer = "failed"]
    /\ UNCHANGED <<tmp_dir, current_dir, archive_dir, archives, merges,
                   promotions, sweep, saved>>
    /\ ApiFrame

\* POST /api/merge/save: save_merge(data), then the router's own metadata row
ApiSaveMerge(counts) ==
    LET r == SaveMerge(tmp_dir, current_dir, archive_dir, archives,
                       settings.output_filename, counts)
    IN  /\ promotions < MaxPromotions
        /\ current_dir' = r.current
        /\ archive_dir' = r.archive
        /\ archives' = IF r.ok
                       THEN SaveArchiveMetadata(r.rows, r.current, r.archive,
                                                DefaultOutput, counts)
                       ELSE archives
        /\ promotions' = IF r.ok THEN promotions + 1 ELSE promotions
        /\ saved' = IF r.ok THEN "success" ELSE "not_found"
        /\ tmp_dir' = r.tmp
        /\ UNCHANGED <<merges, xm, sweep>>
        /\ ApiFrame

\* settings_service.get("archive_retention", "30"): DEFAULTS has no such key
RetentionDays == 30
DayTicks == 24 * 3600 * TicksPerSecond

\* int(settings_service.get("archive_retention", "30")): the value stored
\* under the key by POST /api/settings/set, or the default
RetentionValues == {-1, 0, RetentionDays}

\* the files cleanup_old_archives unlinks at time t:
\*   if retention_days <= 0: return
\*   for file in archive_dir.glob("*.xml.gz.*"): if file_time < cutoff_date
ExpiredBug(arch, t, retention_days) ==
    {n \in DOMAIN arch :
        /\ GlobArchived(n)
        /\ arch[n].mtime < t - retention_days * DayTicks}

Expired(arch, t, retention_days) ==
    IF retention_days <= 0
    THEN {}
    ELSE {n \in DOMAIN arch :
             /\ GlobArchived(n)
             /\ arch[n].mtime < t - retention_days * DayTicks}

\* ArchiveService.cleanup_old_archives(retention_days) at time t
CleanupOldArchives(arch, t, retention_days) ==
    LET gone == Expired(arch, t, retention_days)
    IN  [archive |-> Remove(arch, gone), deleted |-> Cardinality(gone)]

\* POST /api/archives/cleanup
ApiCleanupArchives(retention) ==
    LET r == CleanupOldArchives(archive_dir, now, retention)
    IN  /\ archive_dir' = r.archive
        /\ sweep' = <<retention, r.deleted>>
        /\ UNCHANGED <<tmp_dir, current_dir, archives, merges, promotions,
                       xm, saved>>
        /\ ApiFrame

\* no request arrives for more than the retention period
RetentionPasses ==
    /\ xm.pc = "idle"
    /\ jumps < MaxJumps
    /\ jumps' = jumps + 1
    /\ now' = now + (RetentionDays + 1) * DayTicks
    /\ UNCHANGED <<settings, edits, up, is_job_running, current_job_task,
                   job_history, sched, req, last_resp, att, attempts, crashes,
                   fsVars, mergeVars, cacheVars, storeVars, timerVars>>

(***************************************************************************)
(* JOB CONTROLLER: ScheduledJobService and routers/jobs.py                 *)
(* All tasks run on one event loop: a task runs from one await that        *)
(* suspends to the next, and every action below is one such stretch.       *)
(* Task 0 is the scheduler task, tasks 1..MaxRequests are the handlers of  *)
(* POST /api/jobs/execute-now.                                             *)
(***************************************************************************)
SchedTask == 0
Requests  == 1..MaxRequests
Tasks     == {SchedTask} \cup Requests

\* _cleanup_stuck_jobs(timeout_threshold_hours: int = 2)
StuckThresholdHours == 2

Terminal == {"success", "failed", "timeout"}

JobRow(status, started_at, completed, error) ==
    [status |-> status, started_at |-> started_at, completed |-> completed,
     error_message |-> error]

\* save_job_record: INSERT OR REPLACE INTO job_history, job_id is UNIQUE
SaveJobRecordBug(rows, job_id, status, started_at, completed, error) ==
    IF status = "running" THEN rows
    ELSE Put(rows, job_id, JobRow(status, started_at, completed, error))

SaveJobRecord(rows, job_id, status, started_at, completed, error) ==
    Put(rows, job_id, JobRow(status, started_at, completed, error))

\* job_id = f"scheduled_merge_{datetime.now().strftime('%Y%m%d_%H%M%S')}"
JobId(t) == Strftime(t)

NoAttempt ==
    [phase |-> "none", job_id |-> 0, start |-> 0, webhook |-> FALSE,
     error |-> NoValue, monitor |-> "off", content |-> 0, post |-> NoValue,
     merge_timeout |-> "ok"]

\* the answer of an endpoint: {"status": ...}
Resp(endpoint, status) == [endpoint |-> endpoint, status |-> status]
NoResp == Resp(NoValue, NoValue)

\* the rows _cleanup_stuck_jobs selects:
\* WHERE status = 'running' AND started_at < cutoff_time
StuckBug(rows, t) ==
    {j \in DOMAIN rows : rows[j].status = "running"}

Stuck(rows, t) ==
    LET cutoff == IsoFormat(t - StuckThresholdHours * 3600 * TicksPerSecond)
    IN  {j \in DOMAIN rows :
            rows[j].status = "running" /\ IsoLess(rows[j].started_at, cutoff)}

\* _cleanup_stuck_jobs: UPDATE job_history SET status = 'failed',
\* completed_at = datetime('now'), error_message = 'Auto-recovered: ...'
CleanupStuckJobs(rows, t) ==
    [j \in DOMAIN rows |->
        IF j \in Stuck(rows, t)
        THEN [rows[j] EXCEPT !.status = "failed", !.completed = TRUE,
                             !.error_message = "auto_recovered"]
        ELSE rows[j]]

JobInit ==
    /\ up = TRUE
    /\ is_job_running = FALSE
    /\ current_job_task = NoValue
    /\ job_history = EmptyDir
    /\ sched = "off"
    /\ req = [r \in Requests |-> "idle"]
    /\ last_resp = NoResp
    /\ att = [t \in Tasks |-> NoAttempt]
    /\ attempts = <<>>
    /\ crashes = 0
    /\ jumps = 0

\* what every job action leaves alone
JobFrame == UNCHANGED <<now, settings, edits, mergeVars, cacheVars,
                        storeVars, timerVars, xm, sweep,
                        saved, up, crashes, jumps>>
FsFrame  == UNCHANGED <<tmp_dir, current_dir, archive_dir, archives, merges,
                        promotions>>

\* execute_scheduled_merge, lines 286-346: from the call to the first await
\* that suspends.  chans: _load_channels_from_file returned a non-empty list.
\* An error raised before the merge is handled by `except Exception`, which
\* first awaits memory_monitor.stop() (phase "stop_fail").
StartAttemptBug(t, chans) ==
    /\ is_job_running' = is_job_running
    /\ job_history' = SaveJobRecord(job_history, JobId(now), "running",
                                    IsoFormat(now), FALSE, NoValue)
    /\ att' = [att EXCEPT ![t] =
                 [NoAttempt EXCEPT !.phase = "validating", !.job_id = JobId(now),
                                   !.start = now, !.monitor = "sampling"]]
    /\ attempts' = Append(attempts, JobId(now))

StartAttempt(t, chans) ==
    LET err == CASE settings.timeout = "bad"   -> "invalid_timeout"
                 [] settings.sources = "bad"   -> "invalid_sources"
                 [] settings.sources = "empty" -> "no_sources"
                 [] ~chans                     -> "no_channels"
                 [] OTHER                      -> NoValue
    IN  /\ is_job_running' = TRUE
        \* int(settings.get('merge_timeout')) is evaluated before the
        \* running record is saved
        /\ job_history' =
              IF settings.timeout = "bad" THEN job_history
              ELSE SaveJobRecord(job_history, JobId(now), "running",
                                 IsoFormat(now), FALSE, NoValue)
        /\ att' = [att EXCEPT ![t] =
                     [phase |-> IF err = NoValue THEN "validating"
                                ELSE "stop_fail",
                      job_id |-> JobId(now), start |-> now,
                      webhook |-> settings.webhook, error |-> err,
                      monitor |-> "sampling", content |-> 0,
                      post |-> NoValue, merge_timeout |-> settings.timeout]]
        /\ attempts' = Append(attempts, JobId(now))

\* MemoryMonitor.stop(): _monitoring = False, then the sampling task is
\* awaited; the state of the sampling task when stop() has returned
MonitorStopBug(monitor) == monitor

MonitorStop(monitor) == IF monitor = "off" THEN "off" ELSE "stopped"

\* the attempt has returned: its record is gone; a sampling task that the
\* last stop() of the finally block did not end lives on
Returned(a) ==
    [NoAttempt EXCEPT !.monitor = IF MonitorStop(a.monitor) = "sampling"
                                  THEN "sampling" ELSE "off"]

\* the finally block and the return to the caller: the flags are cleared,
\* the sampler is stopped, and the awaiting caller goes on with the result
FinishBug(t, result) ==
    /\ is_job_running' = is_job_running
    /\ current_job_task' = NoValue
    /\ att' = [att EXCEPT ![t] = Returned(att[t])]
    /\ IF t = SchedTask
       THEN /\ sched' = IF result = "cancelled" THEN "stopped" ELSE "top"
            /\ UNCHANGED <<req, last_resp>>
       ELSE /\ req' = [req EXCEPT ![t] = "idle"]
            /\ last_resp' = Resp("execute-now", result)
            /\ sched' = sched

Finish(t, result) ==
    /\ is_job_running' = FALSE
    /\ current_job_task' = NoValue
    /\ att' = [att EXCEPT ![t] = Returned(att[t])]
    /\ IF t = SchedTask
       THEN /\ sched' = IF result = "cancelled" THEN "stopped" ELSE "top"
            /\ UNCHANGED <<req, last_resp>>
       ELSE /\ req' = [req EXCEPT ![t] = "idle"]
            /\ last_resp' = Resp("execute-now", result)
            /\ sched' = sched

\* execute_merge starts inside wait_for: the arguments are valid (sources and
\* channels were checked by the caller), the temp directory is cleared.
\* With a timeout of 0 or less wait_for cancels the merge before its first
\* step and raises TimeoutError: the merge never begins.
MergeBegins(t) ==
    /\ up
    /\ att[t].phase = "validating"
    /\ att[t].merge_timeout = "ok"
    /\ att' = [att EXCEPT ![t].phase = "downloading"]
    /\ tmp_dir' = ClearTemp(tmp_dir)
    /\ UNCHANGED <<is_job_running, current_job_task, job_history, sched, req,
                   last_resp, attempts, current_dir, archive_dir, archives, merges,
                   promotions>>
    /\ JobFrame

\* _download_sources returned.  got = FALSE: no file was obtained, and
\* execute_merge raises.  got = TRUE: _merge_xml_files writes the temp output
\* under data.get('output_filename', 'merged.xml.gz') (the job passes no
\* output_filename), execute_merge returns, and save_merge promotes the file
\* named by the setting output_filename, or raises FileNotFoundError.
DownloadDone(t, got) ==
    /\ up
    /\ att[t].phase = "downloading"
    /\ IF ~got
       THEN /\ att' = [att EXCEPT ![t].phase = "stop_fail",
                                  ![t].error = "no_files"]
            /\ FsFrame
       ELSE /\ merges < MaxMerges
            /\ LET c == merges + 1
                   tmp2 == Put(tmp_dir, DefaultOutput, File(now, c))
                   r == SaveMerge(tmp2, current_dir, archive_dir, archives,
                                  settings.output_filename, c)
               IN  /\ merges' = c
                   /\ tmp_dir' = r.tmp
                   /\ current_dir' = r.current
                   /\ archive_dir' = r.archive
                   /\ archives' = r.rows
                   /\ promotions' = IF r.ok THEN promotions + 1
                                     ELSE promotions
                   /\ att' = [att EXCEPT
                                ![t].phase = IF r.ok THEN "stop_ok"
                                             ELSE "stop_fail",
                                ![t].error = IF r.ok THEN NoValue
                                             ELSE "not_found",
                                ![t].content = c]
    /\ UNCHANGED <<is_job_running, current_job_task, job_history, sched, req,
                   last_resp, attempts>>
    /\ JobFrame

\* asyncio.wait_for gives up: the merge is cancelled, TimeoutError is raised
MergeTimesOutBug(t) ==
    /\ up
    /\ att[t].phase \in {"validating", "downloading", "stop_ok"}
    /\ att' = [att EXCEPT ![t].phase = "stop_timeout"]
    /\ UNCHANGED <<is_job_running, current_job_task, job_history, sched, req,
                   last_resp, attempts>>
    /\ FsFrame /\ JobFrame

MergeTimesOut(t) ==
    /\ up
    /\ att[t].phase \in {"validating", "downloading"}
    /\ att' = [att EXCEPT ![t].phase = "stop_timeout"]
    /\ UNCHANGED <<is_job_running, current_job_task, job_history, sched, req,
                   last_resp, attempts>>
    /\ FsFrame /\ JobFrame

\* the status each path saves after its memory_monitor.stop(): the success
\* path, `except asyncio.TimeoutError`, `except asyncio.CancelledError` and
\* `except Exception`
FinalStatusBug(phase) ==
    CASE phase = "stop_ok"      -> "success"
      [] phase = "stop_timeout" -> "timeout"
      [] phase = "stop_fail"    -> "running"
      [] OTHER                  -> "failed"

FinalStatus(phase) ==
    CASE phase = "stop_ok"      -> "success"
      [] phase = "stop_timeout" -> "timeout"
      [] OTHER                  -> "failed"

\* the error_message each path saves: none, the timeout text, "Job was
\* cancelled", or str(e) of the exception caught by `except Exception`
FinalErrorBug(phase, error) ==
    CASE phase = "stop_ok"      -> NoValue
      [] phase = "stop_timeout" -> "timeout_exceeded"
      [] phase = "stop_cancel"  -> "cancelled"
      [] OTHER                  -> NoValue

FinalError(phase, error) ==
    CASE phase = "stop_ok"      -> NoValue
      [] phase = "stop_timeout" -> "timeout_exceeded"
      [] phase = "stop_cancel"  -> "cancelled"
      [] OTHER                  -> error

\* await memory_monitor.stop() returns: the terminal record is saved, and the
\* attempt either sends the notification or ends
StopReturns(t) ==
    /\ up
    /\ att[t].phase \in {"stop_ok", "stop_timeout", "stop_fail", "stop_cancel"}
    /\ LET a == att[t]
           status == FinalStatus(a.phase)
           err == FinalError(a.phase, a.error)
           \* the success and timeout paths use the webhook read at the start,
           \* the failure path reads the settings again
           notify == CASE a.phase = "stop_cancel" -> FALSE
                       [] a.phase = "stop_fail"   -> settings.webhook
                       [] OTHER                   -> a.webhook
           result == IF a.phase = "stop_cancel" THEN "cancelled" ELSE status
       IN  /\ job_history' = SaveJobRecord(job_history, a.job_id, status,
                                           IsoFormat(a.start), TRUE, err)
           /\ IF notify
              THEN /\ att' = [att EXCEPT
                               ![t].phase = CASE a.phase = "stop_ok" -> "notify_ok"
                                              [] a.phase = "stop_timeout" -> "notify_timeout"
                                              [] OTHER -> "notify_fail",
                               ![t].monitor = MonitorStop(@)]
                   /\ UNCHANGED <<is_job_running, current_job_task, sched, req,
                                  last_resp>>
              ELSE Finish(t, result)
    /\ UNCHANGED attempts
    /\ FsFrame /\ JobFrame

\* the phases in which the attempt awaits _send_discord_notification
Notifying == {"notify_ok", "notify_timeout", "notify_fail"}

\* what `await client.post(webhook_url, json=payload)` gives: status 200 or
\* 204, another status, or an exception (network error, timeout)
PostOutcomes == {"sent", "refused", "error"}

\* _send_discord_notification lets an exception out to its caller: never,
\* `except Exception` logs it
NotificationRaisesBug(outcome) == outcome = "error"

NotificationRaises(outcome) == FALSE

\* client.post returns or raises inside _send_discord_notification; the
\* outcome is logged and the client is closed (async with).  An exception
\* that got out would reach `except Exception` of execute_scheduled_merge.
PostReturns(t, outcome) ==
    /\ up
    /\ att[t].phase \in Notifying
    /\ att[t].post = NoValue
    /\ att' = IF NotificationRaises(outcome)
              THEN [att EXCEPT ![t].phase = "stop_fail",
                               ![t].error = "notification"]
              ELSE [att EXCEPT ![t].post = outcome]
    /\ UNCHANGED <<is_job_running, current_job_task, job_history, sched, req,
                   last_resp, attempts>>
    /\ FsFrame /\ JobFrame

\* _send_discord_notification returns, and the attempt returns its result
NotifyReturns(t) ==
    /\ up
    /\ att[t].phase \in Notifying
    /\ att[t].post # NoValue
    /\ Finish(t, CASE att[t].phase = "notify_ok"      -> "success"
                    [] att[t].phase = "notify_timeout" -> "timeout"
                    [] OTHER                           -> "failed")
    /\ UNCHANGED <<job_history, attempts>>
    /\ FsFrame /\ JobFrame

\* POST /api/jobs/execute-now: the check of is_job_running and the start of the
\* attempt are one stretch without an await that suspends
ExecuteNow(r, chans) ==
    /\ up
    /\ req[r] = "idle"
    /\ IF is_job_running
       THEN /\ last_resp' = Resp("execute-now", "already_running")
            /\ UNCHANGED <<is_job_running, job_history, att, attempts, req>>
       ELSE /\ Len(attempts) < MaxAttempts
            /\ StartAttempt(r, chans)
            /\ req' = [req EXCEPT ![r] = "attempt"]
            /\ UNCHANGED last_resp
    /\ UNCHANGED <<current_job_task, sched>>
    /\ FsFrame /\ JobFrame

\* start_scheduler: asyncio.create_task(self._run_scheduler())
StartScheduler ==
    /\ up
    /\ sched = "off"
    /\ sched' = "top"
    /\ UNCHANGED <<is_job_running, current_job_task, job_history, req,
                   last_resp, att, attempts>>
    /\ FsFrame /\ JobFrame

\* _run_scheduler, one pass from the top of the loop to its first await:
\* no sources -> sleep(300); a job is running -> sleep(30); else the wait
\* for the fire time begins
SchedIterate ==
    /\ up
    /\ sched = "top"
    /\ sched' = IF settings.sources # "ok" \/ is_job_running THEN "sleep"
                ELSE "wait"
    /\ UNCHANGED <<is_job_running, current_job_task, job_history, req,
                   last_resp, att, attempts>>
    /\ FsFrame /\ JobFrame

\* asyncio.sleep(300) / sleep(30) / sleep(60) is over: continue
SchedWake ==
    /\ up
    /\ sched = "sleep"
    /\ sched' = "top"
    /\ UNCHANGED <<is_job_running, current_job_task, job_history, req,
                   last_resp, att, attempts>>
    /\ FsFrame /\ JobFrame

\* the sleep loop is left (the fire time is reached, or the schedule changed):
\* the final check of is_job_running, then execute_scheduled_merge
SchedFire(chans) ==
    /\ up
    /\ sched = "wait"
    /\ IF is_job_running
       THEN /\ sched' = "top"
            /\ UNCHANGED <<is_job_running, job_history, att, attempts>>
       ELSE /\ Len(attempts) < MaxAttempts
            /\ StartAttempt(SchedTask, chans)
            /\ sched' = "attempt"
    /\ UNCHANGED <<current_job_task, req, last_resp>>
    /\ FsFrame /\ JobFrame

\* stop_scheduler: scheduler_task.cancel().  The CancelledError is raised at
\* the await the task is suspended in.  Inside an attempt:
\*   in wait_for              -> `except asyncio.CancelledError`, which awaits
\*                               memory_monitor.stop() and saves "failed"
\*   in memory_monitor.stop() -> the sampler task takes the cancellation and
\*                               ends normally: the attempt goes on
\*   in the notification of the success or timeout path -> `except
\*       asyncio.CancelledError` saves "failed" (the sampler has ended, so
\*       nothing suspends), re-raises, finally, and the scheduler loop breaks
\*   in the notification of the failure path -> the error leaves the handler,
\*       finally, and the scheduler loop breaks
StopScheduler ==
    /\ up
    /\ sched \in {"top", "sleep", "wait", "attempt"}
    /\ LET a == att[SchedTask]
       IN  CASE sched # "attempt" ->
                  /\ sched' = "stopped"
                  /\ UNCHANGED <<is_job_running, current_job_task,
                                 job_history, req, last_resp, att>>
             [] sched = "attempt"
                /\ a.phase \in {"validating", "downloading"} ->
                  /\ att' = [att EXCEPT ![SchedTask].phase = "stop_cancel"]
                  /\ UNCHANGED <<is_job_running, current_job_task,
                                 job_history, req, last_resp, sched>>
             [] sched = "attempt"
                /\ a.phase \in {"stop_ok", "stop_timeout", "stop_fail",
                                 "stop_cancel"} ->
                  /\ att' = [att EXCEPT ![SchedTask].monitor = "stopped"]
                  /\ UNCHANGED <<is_job_running, current_job_task,
                                 job_history, req, last_resp, sched>>
             [] sched = "attempt"
                /\ a.phase \in {"notify_ok", "notify_timeout"} ->
                  /\ job_history' = SaveJobRecord(job_history, a.job_id,
                                        "failed", IsoFormat(a.start), TRUE,
                                        "cancelled")
                  /\ Finish(SchedTask, "cancelled")
             [] sched = "attempt" /\ a.phase = "notify_fail" ->
                  /\ Finish(SchedTask, "cancelled")
                  /\ UNCHANGED job_history
    /\ UNCHANGED attempts
    /\ FsFrame /\ JobFrame

\* POST /api/jobs/cancel: nothing ever assigns current_job_task a task, so the
\* first check answers "no_job"
CancelRunningJob ==
    /\ up
    /\ IF ~is_job_running \/ current_job_task = NoValue
       THEN /\ last_resp' = Resp("cancel", "no_job")
            /\ UNCHANGED <<is_job_running, current_job_task>>
       ELSE /\ last_resp' = Resp("cancel", "cancelled")
            /\ is_job_running' = FALSE
            /\ current_job_task' = NoValue
    /\ UNCHANGED <<job_history, sched, req, att, attempts>>
    /\ FsFrame /\ JobFrame

\* the process dies: every task is gone; the tables and the files stay.  The
\* next process starts from __init__: is_job_running = False, no scheduler
Crash ==
    /\ up
    /\ crashes < MaxCrashes
    /\ up' = FALSE
    /\ crashes' = crashes + 1
    /\ is_job_running' = FALSE
    /\ current_job_task' = NoValue
    /\ sched' = "off"
    /\ req' = [r \in Requests |-> "idle"]
    /\ last_resp' = NoResp
    /\ att' = [t \in Tasks |-> NoAttempt]
    /\ xm' = [xm EXCEPT !.pc = "idle"]
    /\ UNCHANGED <<now, settings, edits, job_history, attempts, jumps, sweep,
                   saved, mergeVars, cacheVars, storeVars, timerVars>>
    /\ FsFrame

\* startup_event: init_job_history_table(), which ends with
\* _cleanup_stuck_jobs()
Startup ==
    /\ ~up
    /\ up' = TRUE
    /\ job_history' = CleanupStuckJobs(job_history, now)
    /\ UNCHANGED <<now, settings, edits, is_job_running, current_job_task,
                   sched, req, last_resp, att, attempts, crashes, jumps, fsVars,
                   mergeVars, cacheVars, storeVars, timerVars>>

\* the process stays down for a long time: ten minutes or three hours
TenMinutes == 10 * 60 * TicksPerSecond
ThreeHours == 3 * 3600 * TicksPerSecond

TimePasses(d) ==
    /\ ~up
    /\ jumps < MaxJumps
    /\ jumps' = jumps + 1
    /\ now' = now + d
    /\ UNCHANGED <<settings, edits, up, is_job_running, current_job_task,
                   job_history, sched, req, last_resp, att, attempts, crashes,
                   fsVars,
                   mergeVars, cacheVars, storeVars, timerVars>>

(***************************************************************************)
(* SOURCE CACHE: MergeService._download_sources                            *)
(* cache_dir maps a source to its cache file [mtime, content]; dl is the   *)
(* running call: pc is "next" (top of the for body), "head" (awaiting      *)
(* client.head), "get" (awaiting client.get) or "done"; i is the index of  *)
(* the source in hand; log lists the network requests issued; head holds   *)
(* what the HEAD request of each source answered.                          *)
(***************************************************************************)
Sources == 1..MaxSources
HourTicks == 3600 * TicksPerSecond

Request(s, method) == [source |-> s, method |-> method]
RequestsFor(d, s) == {k \in 1..Len(d.log) : d.log[k].source = s}

\* no HEAD request has been answered
NoHead == [s \in Sources |-> NoValue]

HeadAnswers == {"same", "changed", "status", "error"}
GetAnswers == {"ok", "status", "error"}

\* Step 3: status 200 and remote_size == local_size
ReusableBug(answer) == answer \in {"same", "status"}
Reusable(answer) == answer = "same"

\* the source in hand gave nothing: the for body ends, the next source is
\* taken
SkipSourceBug(d) == [d EXCEPT !.pc = "done"]
SkipSource(d) == [d EXCEPT !.pc = "next", !.i = @ + 1]

CacheIdle ==
    /\ cache_dir = EmptyDir
    /\ srcs = <<>>
    /\ dl = [pc |-> "done", i |-> 1, downloaded |-> <<>>, log |-> <<>>,
             hits |-> 0, misses |-> 0, head |-> NoHead]

\* a call of _download_sources about to start, two days after the epoch, over
\* a cache directory left by earlier runs: files one hour or thirty hours old
CacheInit ==
    /\ now = 48 * HourTicks
    /\ \E n \in Sources : srcs = [k \in 1..n |-> k]
    /\ \E have \in SUBSET Sources :
          cache_dir \in [have -> {File(now - HourTicks, 0),
                                  File(now - 30 * HourTicks, 0)}]
    /\ dl = [pc |-> "next", i |-> 1, downloaded |-> <<>>, log |-> <<>>,
             hits |-> 0, misses |-> 0, head |-> NoHead]

CacheFrame == UNCHANGED <<now, settings, edits, jobVars, fsVars, mergeVars,
                          storeVars, timerVars>>

\* top of the for body: Step 1 (cache_file.exists()), then the HEAD request
\* of Step 2 or, without a cache file, the GET of Step 4
CacheCheck ==
    /\ dl.pc = "next"
    /\ dl.i <= Len(srcs)
    /\ LET s == srcs[dl.i]
       IN  IF s \in DOMAIN cache_dir
           THEN dl' = [dl EXCEPT !.pc = "head",
                                 !.log = Append(@, Request(s, "HEAD"))]
           ELSE dl' = [dl EXCEPT !.pc = "get", !.misses = @ + 1,
                                 !.log = Append(@, Request(s, "GET"))]
    /\ UNCHANGED <<cache_dir, srcs>>
    /\ CacheFrame

\* the HEAD request is over.  answer: "same" (200, content-length equal to the
\* local size), "changed" (200, another length), "status" (not 200) or
\* "error" (the request raised)
HeadReturns(answer) ==
    /\ dl.pc = "head"
    /\ LET s == srcs[dl.i]
       IN  IF Reusable(answer)
           THEN dl' = [dl EXCEPT !.pc = "next", !.i = @ + 1, !.hits = @ + 1,
                                 !.downloaded = Append(@, s),
                                 !.head[s] = answer]
           ELSE dl' = [dl EXCEPT !.pc = "get", !.misses = @ + 1,
                                 !.log = Append(@, Request(s, "GET")),
                                 !.head[s] = answer]
    /\ UNCHANGED <<cache_dir, srcs>>
    /\ CacheFrame

\* the GET request is over.  answer: "ok" (200: the body is written to the
\* cache file), "status" (not 200) or "error" (raised, caught by the for body)
GetReturns(answer) ==
    /\ dl.pc = "get"
    /\ LET s == srcs[dl.i]
       IN  IF answer = "ok"
           THEN /\ cache_dir' = Put(cache_dir, s, File(now, 1))
                /\ dl' = [dl EXCEPT !.pc = "next", !.i = @ + 1,
                                    !.downloaded = Append(@, s)]
           ELSE /\ cache_dir' = cache_dir
                /\ dl' = SkipSource(dl)
    /\ UNCHANGED srcs
    /\ CacheFrame

\* the loop is over: return downloaded
CacheReturn ==
    /\ dl.pc = "next"
    /\ dl.i > Len(srcs)
    /\ dl' = [dl EXCEPT !.pc = "done"]
    /\ UNCHANGED <<cache_dir, srcs>>
    /\ CacheFrame

CacheNext ==
    \/ CacheCheck
    \/ \E a \in HeadAnswers : HeadReturns(a)
    \/ \E a \in GetAnswers : GetReturns(a)
    \/ CacheReturn

(***************************************************************************)
(* SCHEDULING LOOP WITH TIME: ScheduledJobService._run_scheduler           *)
(* now counts ticks from 00:00 of a day whose cron weekday is 0.  The loop *)
(* is the only timed process: time advances when one of its sleeps ends.   *)
(* An attempt is one stretch from its start to its end; an on-demand       *)
(* attempt of another task shows as is_job_running.                        *)
(* loop.pc: "off", "top" (start of the while body), "sleep" (sleep(300),   *)
(* sleep(30) or the sleep(60) of `except Exception`), "chunk" (the         *)
(* sleep(sleep_chunk) of the wait), "attempt", "stopped".                  *)
(***************************************************************************)
MinuteTicks == 60 * TicksPerSecond

\* merge_time values: HH:MM, or a text croniter refuses
MergeTimes == {"00:02", "00:04", "aa:bb"}
MinuteOfDay(time) == IF time = "00:02" THEN 2 ELSE 4
Schedules == {"daily", "weekly"}
\* merge_days values, as the sets of weekdays they list
DaySets == {{0}, {1}}

\* the time of day and the weekday fit the cron expression built from the
\* three settings
IsFireInstant(schedule, time, days, t) ==
    /\ time # "aa:bb"
    /\ t % DayTicks = MinuteOfDay(time) * MinuteTicks
    /\ schedule = "daily" \/ ((t \div DayTicks) % 7) \in days

\* croniter(cron_expr, t).get_next(datetime): the first instant after t
NextRun(schedule, time, days, t) ==
    LET day == t \div DayTicks
        cand == {d * DayTicks + MinuteOfDay(time) * MinuteTicks :
                    d \in day..(day + 7)}
        ok == {c \in cand : c > t /\ IsFireInstant(schedule, time, days, c)}
    IN  CHOOSE c \in ok : \A x \in ok : c <= x

\* SettingsService.DEFAULTS: daily; the time is one the user has set
CronDefaults ==
    [schedule |-> "daily", time |-> "00:04", days |-> {0}, days_at |-> 0]

LoopOff ==
    [pc |-> "off", merge_schedule |-> "daily", merge_time |-> "00:04",
     merge_days |-> {0}, since |-> 0, next_run |-> 0, sleep_remaining |-> 0,
     wake |-> 0, cancelling |-> FALSE]

TimerIdle ==
    /\ cron_cfg = CronDefaults
    /\ loop = LoopOff

TimerFrame == UNCHANGED <<settings, edits, up, current_job_task, job_history,
                          sched, req, last_resp, att, attempts, crashes, jumps,
                          fsVars, mergeVars, cacheVars, storeVars>>

\* POST /api/settings/set with one of the three keys (set_setting stores
\* updated_at with the row)
SetCron(k, v) ==
    /\ edits < MaxEdits
    /\ cron_cfg[k] # v
    /\ cron_cfg' = [cron_cfg EXCEPT ![k] = v,
                                    !.days_at = IF k = "days" THEN now ELSE @]
    /\ edits' = edits + 1
    /\ UNCHANGED <<now, settings, up, is_job_running, current_job_task,
                   job_history, sched, req, last_resp, att, attempts, crashes,
                   jumps, loop, fsVars, mergeVars, cacheVars, storeVars>>

\* an on-demand attempt of another task starts or ends
OnDemandRuns ==
    /\ loop.pc # "attempt"
    /\ is_job_running' = ~is_job_running
    /\ UNCHANGED <<now, timerVars>>
    /\ TimerFrame

\* start_scheduler: asyncio.create_task(self._run_scheduler())
LoopStarts ==
    /\ loop.pc = "off"
    /\ loop' = [loop EXCEPT !.pc = "top"]
    /\ UNCHANGED <<now, cron_cfg, is_job_running>>
    /\ TimerFrame

\* the while body from its start to its first await
LoopTop ==
    /\ loop.pc = "top"
    /\ ~loop.cancelling
    /\ LET c == cron_cfg
           read == [loop EXCEPT !.merge_schedule = c.schedule,
                                !.merge_time = c.time,
                                !.merge_days = c.days,
                                !.since = now]
       IN  loop' =
             IF settings.sources # "ok"
             THEN \* no sources: sleep(300)
                  [read EXCEPT !.pc = "sleep", !.wake = now + 5 * MinuteTicks]
             ELSE IF c.time = "aa:bb"
             THEN \* croniter raises: `except Exception`, sleep(60)
                  [read EXCEPT !.pc = "sleep", !.wake = now + MinuteTicks]
             ELSE IF is_job_running
             THEN \* sleep(30)
                  [read EXCEPT !.pc = "sleep",
                               !.next_run = NextRun(c.schedule, c.time, c.days, now),
                               !.wake = now + 30 * TicksPerSecond]
             ELSE [read EXCEPT !.pc = "chunk",
                               !.next_run = NextRun(c.schedule, c.time, c.days, now),
                               !.sleep_remaining =
                                   NextRun(c.schedule, c.time, c.days, now) - now]
    /\ UNCHANGED <<now, cron_cfg, is_job_running>>
    /\ TimerFrame

\* asyncio.sleep(300) / sleep(30) / sleep(60) is over: the next iteration
LoopSleepEnds ==
    /\ loop.pc = "sleep"
    /\ ~loop.cancelling
    /\ loop.wake <= MaxMinutes * MinuteTicks
    /\ now' = loop.wake
    /\ loop' = [loop EXCEPT !.pc = "top"]
    /\ UNCHANGED <<cron_cfg, is_job_running>>
    /\ TimerFrame

\* asyncio.sleep(sleep_chunk) is over: sleep_remaining is reduced; if some
\* is left the settings are read again and a changed merge_time or
\* merge_schedule breaks the wait.  After the wait, however it was left: the
\* final check of is_job_running, then execute_scheduled_merge()
LoopChunkEnds ==
    /\ loop.pc = "chunk"
    /\ ~loop.cancelling
    /\ LET sleep_chunk == IF loop.sleep_remaining < MinuteTicks
                          THEN loop.sleep_remaining ELSE MinuteTicks
           left == loop.sleep_remaining - sleep_chunk
           changed == \/ cron_cfg.time # loop.merge_time
                      \/ cron_cfg.schedule # loop.merge_schedule
       IN  /\ now + sleep_chunk <= MaxMinutes * MinuteTicks
           /\ now' = now + sleep_chunk
           /\ IF left > 0 /\ ~changed
              THEN /\ loop' = [loop EXCEPT !.sleep_remaining = left]
                   /\ UNCHANGED is_job_running
              ELSE /\ loop' = [loop EXCEPT
                                 !.sleep_remaining = left,
                                 !.pc = IF is_job_running THEN "top"
                                        ELSE "attempt"]
                   /\ is_job_running' = TRUE
    /\ UNCHANGED cron_cfg
    /\ TimerFrame

\* what execute_scheduled_merge() gives the loop: a result dict with status
\* success, failed or timeout, or an exception that got out of its handlers
AttemptOutcomes == {"success", "failed", "timeout", "raised"}

\* where the loop goes after the attempt: the next iteration, or, through
\* `except Exception`, sleep(60) and then the next iteration
AfterAttemptBug(outcome) == IF outcome = "raised" THEN "stopped" ELSE "top"

AfterAttempt(outcome) == IF outcome = "raised" THEN "sleep" ELSE "top"

\* execute_scheduled_merge() returns or raises; its finally block has
\* cleared is_job_running
LoopAttemptEnds(outcome) ==
    /\ loop.pc = "attempt"
    /\ ~loop.cancelling
    /\ loop' = [loop EXCEPT !.pc = AfterAttempt(outcome),
                            !.wake = now + MinuteTicks]
    /\ is_job_running' = FALSE
    /\ UNCHANGED <<now, cron_cfg>>
    /\ TimerFrame

\* stop_scheduler: scheduler_task.cancel() asks for the cancellation
LoopCancel ==
    /\ loop.pc \in {"top", "sleep", "chunk", "attempt"}
    /\ ~loop.cancelling
    /\ loop' = [loop EXCEPT !.cancelling = TRUE]
    /\ UNCHANGED <<now, cron_cfg, is_job_running>>
    /\ TimerFrame

\* the CancelledError is raised at the await the task is suspended in:
\* `except asyncio.CancelledError: break` (inside an attempt its finally
\* block runs first)
LoopCancelled ==
    /\ loop.cancelling
    /\ loop.pc # "stopped"
    /\ loop' = [loop EXCEPT !.pc = "stopped"]
    /\ is_job_running' = IF loop.pc = "attempt" THEN FALSE ELSE is_job_running
    /\ UNCHANGED <<now, cron_cfg>>
    /\ TimerFrame

TimerNext ==
    \/ \E v \in {"ok", "empty"} : SetSetting("sources", v)
    \/ \E v \in MergeTimes : SetCron("time", v)
    \/ \E v \in Schedules : SetCron("schedule", v)
    \/ \E v \in DaySets : SetCron("days", v)
    \/ OnDemandRuns
    \/ LoopStarts
    \/ LoopTop
    \/ LoopSleepEnds
    \/ LoopChunkEnds
    \/ \E o \in AttemptOutcomes : LoopAttemptEnds(o)
    \/ LoopCancel
    \/ LoopCancelled

(***************************************************************************)
(* SETTINGS STORE: SettingsService.get / set / get_all over Database       *)
(* settings_table is the table settings restricted to three keys: one with *)
(* a non-empty built-in default, one whose default is "", one without a    *)
(* default.  Values are strings (set stores str(value)).                   *)
(***************************************************************************)
StoreKeys == {"output_filename", "discord_webhook", "archive_retention"}

\* SettingsService.DEFAULTS, the entries of the keys above
StoreDefaults ==
    [k \in {"output_filename", "discord_webhook"} |->
        IF k = "output_filename" THEN "merged.xml.gz" ELSE ""]

StoreValues == {"", "aaa.xml.gz", "bbb.xml.gz"}

EmptyTable == [k \in {} |-> ""]
NoGot == [key |-> NoValue, value |-> NoValue, all |-> NoValue]

\* Database.get_setting(key, default=""): row[0] if row else default
DbGetSetting(table, key) == IF key \in DOMAIN table THEN table[key] ELSE ""

\* SettingsService.get(key):
\*   value = self.db.get_setting(key)
\*   if value: return value
\*   return default or self.DEFAULTS.get(key, "")
Get(table, key) ==
    LET value == DbGetSetting(table, key)
    IN  IF value # "" THEN value
        ELSE IF key \in DOMAIN StoreDefaults THEN StoreDefaults[key] ELSE ""

\* SettingsService.get_all(): DEFAULTS.copy() updated with the rows
GetAll(table) ==
    [k \in DOMAIN StoreDefaults \cup DOMAIN table |->
        IF k \in DOMAIN table THEN table[k] ELSE StoreDefaults[k]]

StoreIdle ==
    /\ settings_table = EmptyTable
    /\ last_get = NoGot

StoreFrame == UNCHANGED <<now, settings, edits, jobVars, fsVars, mergeVars,
                          cacheVars, timerVars>>

\* SettingsService.set(key, value): INSERT OR REPLACE INTO settings
StoreSet(key, value) ==
    /\ settings_table' =
          [k \in DOMAIN settings_table \cup {key} |->
              IF k = key THEN value ELSE settings_table[k]]
    /\ UNCHANGED last_get
    /\ StoreFrame

\* one caller reads the key with get and with get_all
StoreGet(key) ==
    /\ last_get' = [key |-> key,
               value |-> Get(settings_table, key),
               all |-> IF key \in DOMAIN GetAll(settings_table)
                       THEN GetAll(settings_table)[key] ELSE NoValue]
    /\ UNCHANGED settings_table
    /\ StoreFrame

StoreNext ==
    \/ \E k \in StoreKeys : \E v \in StoreValues : StoreSet(k, v)
    \/ \E k \in StoreKeys : StoreGet(k)

(***************************************************************************)
(* SPECIFICATIONS                                                          *)
(***************************************************************************)
\* the job controller of one process, from a fresh installation
Init ==
    /\ now = 0
    /\ settings = SettingsDefaults
    /\ edits = 0
    /\ JobInit
    /\ FsInit
    /\ MergeIdle
    /\ CacheIdle
    /\ StoreIdle
    /\ TimerIdle

JobNext ==
    \/ Tick
    \/ \E k \in {"sources", "timeout", "webhook", "output_filename"} :
          \E v \in SettingValues(k) : SetSetting(k, v)
    \/ StartScheduler
    \/ SchedIterate
    \/ SchedWake
    \/ \E chans \in BOOLEAN : SchedFire(chans)
    \/ \E r \in Requests, chans \in BOOLEAN : ExecuteNow(r, chans)
    \/ \E t \in Tasks : MergeBegins(t)
    \/ \E t \in Tasks, got \in BOOLEAN : DownloadDone(t, got)
    \/ \E t \in Tasks : MergeTimesOut(t)
    \/ \E t \in Tasks : StopReturns(t)
    \/ \E t \in Tasks : \E o \in PostOutcomes : PostReturns(t, o)
    \/ \E t \in Tasks : NotifyReturns(t)
    \/ StopScheduler
    \/ CancelRunningJob

Next == JobNext

Spec == Init /\ [][Next]_vars

\* an attempt in flight goes on: wait_for ends its merge after merge_timeout
\* seconds at the latest, and the sampler ends within one sleep(0.1)
AttemptStep ==
    \E t \in Tasks :
        \/ MergeBegins(t)
        \/ \E got \in BOOLEAN : DownloadDone(t, got)
        \/ MergeTimesOut(t)
        \/ StopReturns(t)
        \/ \E o \in PostOutcomes : PostReturns(t, o)
        \/ NotifyReturns(t)

SpecLive == Spec /\ WF_vars(AttemptStep)

\* the job controller over process crashes, restarts and long waits
RecoveryNext ==
    \/ Tick
    \/ \E v \in SettingValues("sources") : SetSetting("sources", v)
    \/ \E v \in SettingValues("webhook") : SetSetting("webhook", v)
    \/ \E r \in Requests, c \in BOOLEAN : ExecuteNow(r, c)
    \/ \E t \in Tasks : MergeBegins(t)
    \/ \E t \in Tasks, got \in BOOLEAN : DownloadDone(t, got)
    \/ \E t \in Tasks : MergeTimesOut(t)
    \/ \E t \in Tasks : StopReturns(t)
    \/ \E t \in Tasks : \E o \in PostOutcomes : PostReturns(t, o)
    \/ \E t \in Tasks : NotifyReturns(t)
    \/ Crash
    \/ Startup
    \/ \E d \in {TenMinutes, ThreeHours} : TimePasses(d)

SpecRecovery == Init /\ [][RecoveryNext]_vars

\* the archive store under the merge endpoints of routers/merge.py
ArchiveNext ==
    \/ Tick
    \/ \E f \in OutputFilenames : SetSetting("output_filename", f)
    \/ \E f \in OutputFilenames : ApiExecuteMerge(GoodData(f))
    \/ ApiMergeWritten
    \/ ApiMergeFails
    \/ \E c \in 0..MaxMerges : ApiSaveMerge(c)

SpecArchive == Init /\ [][ArchiveNext]_vars

\* promotions and retention sweeps, the output filename left as it is
RetentionNext ==
    \/ Tick
    \/ ApiExecuteMerge(GoodData(settings.output_filename))
    \/ ApiMergeWritten
    \/ ApiMergeFails
    \/ \E c \in 0..MaxMerges : ApiSaveMerge(c)
    \/ \E r \in RetentionValues : ApiCleanupArchives(r)
    \/ RetentionPasses

SpecRetention == Init /\ [][RetentionNext]_vars

\* POST /api/merge/execute with any body, and POST /api/merge/save
ExecuteNext ==
    \/ \E data \in MergeData : ApiExecuteMerge(data)
    \/ ApiMergeWritten
    \/ ApiMergeFails
    \/ \E c \in 0..MaxMerges : ApiSaveMerge(c)

SpecExecute == Init /\ [][ExecuteNext]_vars

\* one call of _merge_xml_files over any source list and keep-list
InitMerge ==
    /\ now = 0
    /\ settings = SettingsDefaults
    /\ edits = 0
    /\ JobInit
    /\ FsInit
    /\ MergeInit
    /\ CacheIdle
    /\ StoreIdle
    /\ TimerIdle

SpecMerge == InitMerge /\ [][MergeNext]_vars

\* one call of _download_sources over any cache directory
InitCache ==
    /\ settings = SettingsDefaults
    /\ edits = 0
    /\ JobInit
    /\ FsInit
    /\ MergeIdle
    /\ CacheInit
    /\ StoreIdle
    /\ TimerIdle

SpecCache == InitCache /\ [][CacheNext]_vars

\* an installation whose sources are selected
InitConfigured ==
    /\ now = 0
    /\ settings = [SettingsDefaults EXCEPT !.sources = "ok"]
    /\ edits = 0
    /\ JobInit
    /\ FsInit
    /\ MergeIdle
    /\ CacheIdle
    /\ StoreIdle
    /\ TimerIdle

\* the scheduling loop with its clock
SpecSchedule == InitConfigured /\ [][TimerNext]_vars

\* on-demand attempts next to requests of POST /api/merge/execute and
\* POST /api/merge/save
OverlapNext ==
    \/ Tick
    \/ \E r \in Requests, chans \in BOOLEAN : ExecuteNow(r, chans)
    \/ \E t \in Tasks : MergeBegins(t)
    \/ \E t \in Tasks, ok \in BOOLEAN : DownloadDone(t, ok)
    \/ \E t \in Tasks : StopReturns(t)
    \/ ApiExecuteMerge(GoodData(DefaultOutput))
    \/ ApiMergeWritten
    \/ ApiMergeFails
    \/ \E c \in 0..MaxMerges : ApiSaveMerge(c)

SpecOverlap == InitConfigured /\ [][OverlapNext]_vars

\* the settings store alone
SpecSettings == Init /\ [][StoreNext]_vars

(***************************************************************************)
(* PROPERTIES                                                              *)
(***************************************************************************)

InFlight == {t \in Tasks : att[t].phase # "none"}
RunningRows == {j \in DOMAIN job_history : job_history[j].status = "running"}

\* C1: at any moment at most one merge attempt is in flight in the process,
\* and the job history holds at most one record whose status is "running"
C1_SingleFlight ==
    /\ Cardinality(InFlight) <= 1
    /\ Cardinality(RunningRows) <= 1

\* an attempt is in flight, its running record is stored, and a second
\* trigger has been answered "already_running"
C1_Witness ==
    /\ InFlight # {}
    /\ RunningRows # {}
    /\ last_resp = Resp("execute-now", "already_running")

\* C6: is_job_running is true exactly while an attempt is executing: it is
\* false after every finish (success, failure, timeout or cancellation), so
\* a finished attempt never blocks a later trigger
C6_FlagTracksAttempt == is_job_running = (InFlight # {})

\* the scheduler's attempt has finished by cancellation, an on-demand attempt
\* has finished with a failure, and the flag is down
C6_Witness ==
    /\ sched = "stopped"
    /\ Len(attempts) = 2
    /\ last_resp = Resp("execute-now", "failed")
    /\ InFlight = {}
    /\ ~is_job_running

\* C5: every attempt ends, and when it ends (whatever its settings, download,
\* merge or promote step raised) the record of its job id is stored with a
\* terminal status: never still "running", never missing
C5_TerminalRecord ==
    /\ [][\A t \in Tasks :
            (att[t].phase # "none" /\ att'[t].phase = "none")
            => /\ att[t].job_id \in DOMAIN job_history'
               /\ job_history'[att[t].job_id].status \in Terminal]_vars
    /\ \A t \in Tasks : (att[t].phase # "none") ~> (att[t].phase = "none")

\* an attempt whose promote step raised has ended, and its record is "failed"
C5_Witness ==
    /\ InFlight = {}
    /\ last_resp = Resp("execute-now", "failed")
    /\ \E j \in DOMAIN job_history :
          /\ job_history[j].status = "failed"
          /\ job_history[j].error_message = "not_found"

\* the clock reading an isoformat string stands for
IsoTicks(iso) ==
    iso[1] * TicksPerSecond + (IF Len(iso) = 2 THEN iso[2] ELSE 0)

TwoHours == 2 * 3600 * TicksPerSecond

\* C4: the scan at startup turns every "running" record that started more
\* than two hours ago into "failed" with the auto-recovery message, and
\* leaves every younger "running" record and every other record unchanged
C4_StartupScan ==
    [][(~up /\ up')
       => /\ DOMAIN job_history' = DOMAIN job_history
          /\ \A j \in DOMAIN job_history :
                LET r == job_history[j]
                IN  IF /\ r.status = "running"
                       /\ now - IsoTicks(r.started_at) > TwoHours
                    THEN job_history'[j] =
                            [r EXCEPT !.status = "failed", !.completed = TRUE,
                                      !.error_message = "auto_recovered"]
                    ELSE job_history'[j] = r]_vars

\* after the second startup: one record was recovered by a scan, and a
\* record left "running" by the crash ten minutes ago is still "running"
C4_Witness ==
    /\ up
    /\ crashes = 2
    /\ InFlight = {}
    /\ \E i, j \in DOMAIN job_history :
          /\ job_history[i].error_message = "auto_recovered"
          /\ job_history[j].status = "running"
          /\ now - IsoTicks(job_history[j].started_at) >= TenMinutes
          /\ now - IsoTicks(job_history[j].started_at) < TwoHours

\* C10: two distinct attempts never have the same job id
C10_DistinctJobIds ==
    \A i, j \in 1..Len(attempts) : i # j => attempts[i] # attempts[j]

Kept(tag) == {m_acc.root[i] : i \in {k \in 1..Len(m_acc.root) :
                                         m_acc.root[k].tag = tag}}

\* C2: every programme element of the output has a channel id of the
\* keep-list, and the output holds a channel element with that id
C2_NoOrphanProgramme ==
    \A p \in Kept("programme") :
        /\ p.id \in m_keep
        /\ \E c \in Kept("channel") : c.id = p.id

\* the output is written: it holds a programme, and the last file held a
\* programme that was left out because its channel was not kept before it
C2_Witness ==
    /\ m_src.pos = "done"
    /\ Kept("programme") # {}
    /\ \E k \in 1..Len(m_src.cur) :
          /\ m_src.cur[k].tag = "programme"
          /\ m_src.cur[k] \notin Kept("programme")

\* C3: once the source list [A, A] is merged, the counts are those of the
\* merge of [A]
C3_SameCounts ==
    (m_src.n = 2 /\ m_src.again /\ m_src.pos # "open")
    => Counts(m_acc) = m_snap

\* C7: with the output filename never changed, after N promotions there is
\* one current file and there are N-1 archived files
C7_ArchiveCount ==
    (promotions >= 1 /\ edits = 0)
    => /\ Cardinality(DOMAIN current_dir) = 1
       /\ Cardinality(DOMAIN archive_dir) = promotions - 1

\* C8: a successful promotion leaves exactly one file in the current
\* directory, the file under the configured output filename
C8_OneCurrentFile ==
    [][promotions' = promotions + 1
       => DOMAIN current_dir' = {settings'.output_filename}]_vars

\* the cache file of source s is younger than 24 hours
Fresh(s) ==
    /\ s \in DOMAIN cache_dir
    /\ now - cache_dir[s].mtime < 24 * HourTicks

\* C9: no request (HEAD or GET) is issued for a source whose cache file, left
\* by an earlier run, is younger than 24 hours
C9_FreshCacheNoRequest ==
    \A s \in Sources :
        (Fresh(s) /\ cache_dir[s].content = 0) => RequestsFor(dl, s) = {}

\* C11: a job record that is in a terminal status never returns to "running"
C11_TerminalStays ==
    [][\A j \in DOMAIN job_history :
          job_history[j].status \in Terminal
          => /\ j \in DOMAIN job_history'
             /\ job_history'[j].status \in Terminal]_vars

\* C12: a cancel request answered while an attempt is running cancels the
\* attempt: the answer is "cancelled" and the running flag is cleared
C12_CancelStopsAttempt ==
    [][(/\ InFlight # {}
        /\ last_resp' # last_resp
        /\ last_resp'.endpoint = "cancel")
       => /\ last_resp'.status = "cancelled"
          /\ ~is_job_running']_vars

\* C13: an attempt whose merge was ended by the timeout leaves the record of
\* its job id in status "timeout", with completed_at set, when it ends
C13_TimeoutRecorded ==
    [][\A t \in Tasks :
          (att[t].phase \in {"stop_timeout", "notify_timeout"}
           /\ att'[t].phase = "none")
          => /\ att[t].job_id \in DOMAIN job_history'
             /\ job_history'[att[t].job_id].status = "timeout"
             /\ job_history'[att[t].job_id].completed]_vars

\* the step of a POST /api/merge/execute request that is answered at once
\* or starts to download
MergeRequested == xm.pc = "idle" /\ xm' # xm

\* C14: a request whose source list or channel list is empty, or whose
\* timeframe is not 3, 7 or 14, is answered with a validation error, and no
\* temp file is deleted, no download begins and no directory changes
C14_ValidationBeforeIO ==
    [][(/\ MergeRequested
        /\ \/ ~xm'.data.sources
           \/ ~xm'.data.channels
           \/ xm'.data.timeframe \notin {"3", "7", "14"})
       => /\ xm'.answer = "invalid"
          /\ xm'.pc = "idle"
          /\ UNCHANGED <<tmp_dir, cache_dir, current_dir, archive_dir, dl>>]_vars

\* a request with sources, channels and the timeframe 99 was answered with a
\* validation error while the temp directory holds an earlier output
C14_Witness ==
    /\ xm.answer = "invalid"
    /\ xm.data.sources /\ xm.data.channels /\ xm.data.timeframe = "99"
    /\ \E n \in DOMAIN tmp_dir : GlobXmlGzStar(n)
    /\ DOMAIN current_dir # {}

\* C15: a request whose feed type is neither iptv nor gracenote is answered
\* with a validation error, and no download begins
C15_FeedTypeValidated ==
    [][(MergeRequested /\ xm'.data.feed_type \notin {"iptv", "gracenote"})
       => /\ xm'.answer = "invalid"
          /\ xm'.pc = "idle"]_vars

\* C16: when no source is obtained, no merged output is written, the current
\* and the archive directory stay as they are until the attempt ends, and
\* the attempt's record is "failed" with the error text
C16_NoFilesFails ==
    [][\A t \in Tasks :
          /\ (att[t].phase = "downloading" /\ att'[t].error = "no_files")
             => UNCHANGED <<tmp_dir, current_dir, archive_dir, archives>>
          /\ (att[t].error = "no_files")
             => UNCHANGED <<current_dir, archive_dir>>
          /\ (att[t].error = "no_files" /\ att'[t].phase = "none")
             => /\ att[t].job_id \in DOMAIN job_history'
                /\ job_history'[att[t].job_id].status = "failed"
                /\ job_history'[att[t].job_id].error_message = "no_files"]_vars

\* an attempt that obtained no source has ended with a "failed" record
\* carrying the error, and the current file of an earlier attempt is there
C16_Witness ==
    /\ InFlight = {}
    /\ DOMAIN current_dir # {}
    /\ \E j \in DOMAIN job_history :
          /\ job_history[j].status = "failed"
          /\ job_history[j].error_message = "no_files"

IsChannel(e) == e.tag = "channel"
IsProgramme(e) == e.tag = "programme"
OutChannels(acc) == SelectSeq(acc.root, IsChannel)
OutProgrammes(acc) == SelectSeq(acc.root, IsProgramme)

\* the step that takes one element from the file, and the element taken
Consumed == Len(m_src'.cur) = Len(m_src.cur) + 1
Taken == m_src'.cur[Len(m_src'.cur)]

\* C17: the output never holds two channel elements with one id nor a
\* channel outside the keep-list; a channel element met is appended to the
\* output's channels if its id is in the keep-list and no channel with that
\* id is in the output, and otherwise it changes nothing: the first one met
\* stays, later ones are dropped
C17_FirstChannelWins ==
    /\ [](LET ch == OutChannels(m_acc)
          IN  \A i, j \in 1..Len(ch) :
                 /\ ch[i].id \in m_keep
                 /\ i # j => ch[i].id # ch[j].id)
    /\ [][Consumed
          => LET old == OutChannels(m_acc)
                 new == OutChannels(m_acc')
             IN  IF /\ IsChannel(Taken)
                    /\ Taken.id \in m_keep
                    /\ \A k \in 1..Len(old) : old[k].id # Taken.id
                 THEN new = Append(old, Taken)
                 ELSE new = old]_vars

\* the output is written; the last file held two different channel elements
\* with one id, the first of them is in the output and the second is not
C17_Witness ==
    /\ m_src.pos = "done"
    /\ \E i, j \in 1..Len(m_src.cur) :
          /\ i < j
          /\ IsChannel(m_src.cur[i]) /\ IsChannel(m_src.cur[j])
          /\ m_src.cur[i].id = m_src.cur[j].id
          /\ m_src.cur[i] # m_src.cur[j]
          /\ m_src.cur[i] \in Kept("channel")
          /\ m_src.cur[j] \notin Kept("channel")

\* C18: the output never holds two programme elements with one (channel id,
\* start, title) key, and programs_included is the number of its programme
\* elements; a programme met whose channel is kept is appended if no
\* programme of the output has its key, and otherwise it changes nothing
C18_FirstProgrammeWins ==
    /\ [](LET pr == OutProgrammes(m_acc)
          IN  /\ \A i, j \in 1..Len(pr) :
                    i # j => ProgrammeKey(pr[i]) # ProgrammeKey(pr[j])
              /\ Counts(m_acc).programs_included = Len(pr))
    /\ [][Consumed
          => LET old == OutProgrammes(m_acc)
                 new == OutProgrammes(m_acc')
             IN  IF /\ IsProgramme(Taken)
                    /\ \E c \in Kept("channel") : c.id = Taken.id
                    /\ \A k \in 1..Len(old) :
                          ProgrammeKey(old[k]) # ProgrammeKey(Taken)
                 THEN new = Append(old, Taken)
                 ELSE new = old]_vars

\* the output is written; a programme of the last file was dropped because
\* the output already held a different programme with its key, met earlier
C18_Witness ==
    /\ m_src.pos = "done"
    /\ \E j \in 1..Len(m_src.cur) :
          /\ IsProgramme(m_src.cur[j])
          /\ m_src.cur[j] \notin Kept("programme")
          /\ \E p \in Kept("programme") :
                /\ ProgrammeKey(p) = ProgrammeKey(m_src.cur[j])
                /\ p # m_src.cur[j]

\* C19: a promotion leaves every file that is in the archive directory
\* there, under its name and with its content
C19_ArchiveKept ==
    [][promotions' = promotions + 1
       => \A a \in DOMAIN archive_dir :
             /\ a \in DOMAIN archive_dir'
             /\ archive_dir'[a].content = archive_dir[a].content]_vars

\* C20: with the output filename never changed, the rows of the archives
\* table are the files of the current and the archive directory: every file
\* has its row and every row names a file on disk
C20_RowsAreFiles ==
    edits = 0
    => DOMAIN archives = DOMAIN current_dir \cup DOMAIN archive_dir

\* a step of cleanup_old_archives
SweepStep ==
    \/ sweep' # sweep
    \/ archive_dir' # archive_dir /\ promotions' = promotions

\* C21: a retention sweep with argument r > 0 removes from the archive
\* directory exactly the files whose modification time is before now minus
\* r days and leaves the others as they are, removes nothing when r <= 0,
\* leaves the current directory as it is, and reports the number removed
C21_SweepRemovesExpired ==
    [][SweepStep
       => LET r == sweep'[1]
              old == {n \in DOMAIN archive_dir :
                         archive_dir[n].mtime < now - r * DayTicks}
          IN  /\ current_dir' = current_dir
              /\ IF r <= 0
                 THEN archive_dir' = archive_dir
                 ELSE /\ DOMAIN archive_dir' = DOMAIN archive_dir \ old
                      /\ \A n \in DOMAIN archive_dir' :
                            archive_dir'[n] = archive_dir[n]
              /\ sweep'[2] = Cardinality(DOMAIN archive_dir
                                            \ DOMAIN archive_dir')]_vars

\* a sweep with the default retention has removed one archived file and
\* kept another, and there is a current file
C21_Witness ==
    /\ sweep = <<RetentionDays, 1>>
    /\ Cardinality(DOMAIN archive_dir) = 1
    /\ DOMAIN current_dir # {}

\* a step of POST /api/merge/save that is answered 404
SaveNotFound ==
    /\ saved' = "not_found"
    /\ UNCHANGED <<now, settings, edits, xm, sweep, merges, jumps>>

\* C22: POST /api/merge/save is answered not-found exactly when the temp
\* directory holds no file under the configured output filename, and then
\* the temp, current and archive directories and the archives table are
\* left as they are and no promotion is counted
C22_SaveWithoutTempFile ==
    /\ [][saved' # saved
          => (saved' = "not_found"
                <=> settings.output_filename \notin DOMAIN tmp_dir)]_vars
    /\ [][SaveNotFound
          => /\ settings.output_filename \notin DOMAIN tmp_dir
             /\ UNCHANGED <<tmp_dir, current_dir, archive_dir, archives,
                            promotions>>]_vars

\* save was answered not-found while a current file and an archived file
\* exist: there was something to archive
C22_Witness ==
    /\ saved = "not_found"
    /\ settings.output_filename \notin DOMAIN tmp_dir
    /\ \E n \in DOMAIN current_dir : GlobXmlGz(n)
    /\ DOMAIN archive_dir # {}

\* the status the record of a notifying attempt holds, by the path taken
NotifiedStatus(phase) ==
    CASE phase = "notify_ok"      -> "success"
      [] phase = "notify_timeout" -> "timeout"
      [] OTHER                    -> "failed"

\* C23: while an attempt awaits its notification the record holds the status
\* of its path; the step in which the notification fails (refused or error)
\* changes neither the record nor the path of the attempt, and when the
\* attempt then returns, the record is as it was written before the
\* notification and the result returned is the status of that record
C23_NotificationFailureIgnored ==
    /\ [](\A t \in Tasks :
            att[t].phase \in Notifying
            => /\ att[t].job_id \in DOMAIN job_history
               /\ job_history[att[t].job_id].status
                     = NotifiedStatus(att[t].phase))
    /\ [][\A t \in Tasks :
            att[t].phase \in Notifying
            => /\ att'[t].phase \in {att[t].phase, "none"}
               /\ (att'[t].post \in {"refused", "error"} /\ att[t].post = NoValue)
                  => job_history' = job_history
               /\ (/\ att[t].post \in {"refused", "error"}
                   /\ att'[t].phase = "none"
                   /\ up'
                   /\ ~(t = SchedTask /\ sched' = "stopped"))
                  => /\ job_history' = job_history
                     /\ ~is_job_running'
                     /\ t \in Requests
                        => last_resp' = Resp("execute-now",
                                             job_history[att[t].job_id].status)
           ]_vars

\* the notification of an on-demand attempt whose merge succeeded has
\* failed with an exception, and the record of the attempt says success
C23_Witness ==
    \E t \in Requests :
        /\ att[t].phase = "notify_ok"
        /\ att[t].post = "error"
        /\ job_history[att[t].job_id].status = "success"

\* C24: a read of a key that was written returns, from get and from
\* get_all alike, the value written last
C24_LastWriteWins ==
    [][last_get' # last_get
       => (last_get'.key \in DOMAIN settings_table
           => /\ last_get'.value = settings_table[last_get'.key]
              /\ last_get'.all = last_get'.value)]_vars

\* the scheduling loop starts an attempt
AttemptStarts == loop.pc # "attempt" /\ loop'.pc = "attempt"

\* C25: the scheduling loop starts an attempt only at a fire time of the
\* schedule settings in force (or of the settings it read last, when they
\* were changed after its last check)
C25_FiresAtFireTime ==
    [][AttemptStarts
       => \/ IsFireInstant(cron_cfg.schedule, cron_cfg.time, cron_cfg.days,
                           now')
          \/ IsFireInstant(loop.merge_schedule, loop.merge_time,
                           loop.merge_days, now')]_vars

\* C26: when merge_days of a weekly schedule was changed during the wait,
\* at least one sleep chunk before the attempt starts, the attempt starts at
\* a fire time of the new set
C26_DaysChangeNoticed ==
    [][(/\ AttemptStarts
        /\ cron_cfg.schedule = "weekly" /\ loop.merge_schedule = "weekly"
        /\ cron_cfg.time = loop.merge_time
        /\ cron_cfg.days # loop.merge_days
        /\ loop.since <= cron_cfg.days_at
        /\ cron_cfg.days_at + MinuteTicks <= now')
       => IsFireInstant(cron_cfg.schedule, cron_cfg.time, cron_cfg.days,
                        now')]_vars

\* C27: when the merge of an attempt succeeds, its temp output is in the
\* temp directory under the configured output filename, the promote step
\* makes that output the current file, and the attempt takes the success
\* path
C27_ConfiguredNamePromoted ==
    [][\A t \in Tasks :
         (att[t].phase = "downloading" /\ merges' = merges + 1)
         => /\ att'[t].phase = "stop_ok"
            /\ settings.output_filename \in DOMAIN tmp_dir'
            /\ tmp_dir'[settings.output_filename].content = merges'
            /\ settings.output_filename \in DOMAIN current_dir'
            /\ current_dir'[settings.output_filename].content = merges']_vars

\* C28: at no time are a merge of POST /api/merge/execute and the merge of
\* an attempt both in flight
C28_OneMergeInFlight ==
    ~(xm.pc = "downloading" /\ \E t \in Tasks : att[t].phase = "downloading")

\* C29: a trigger that arrives while an attempt runs starts nothing and is
\* not queued: while an attempt is in flight no attempt begins, no job record
\* appears, the on-demand request is answered "already_running" with its
\* handler back at rest, and the scheduler returns to the top of its loop;
\* an attempt begins only in the step of a trigger that found none running,
\* so the end of the running attempt starts no other
TriggerRejected ==
    InFlight # {} =>
        /\ attempts' = attempts
        \* the only record that may appear is the running attempt's own
        /\ DOMAIN job_history' \subseteq
              DOMAIN job_history \cup {att[t].job_id : t \in InFlight}
        /\ \A t \in Tasks : att[t].phase = "none" => att'[t].phase = "none"
        /\ \A r \in Requests : req[r] = "idle" => req'[r] = "idle"
        /\ sched # "attempt" => sched' # "attempt"
        \* an answer of execute-now that is not the running attempt's own
        /\ (/\ last_resp' # last_resp
            /\ last_resp'.endpoint = "execute-now"
            /\ req' = req)
              => /\ last_resp'.status = "already_running"
                 /\ UNCHANGED <<is_job_running, job_history, att, attempts>>

AttemptBegins ==
    attempts' # attempts =>
        /\ InFlight = {}
        /\ Len(attempts') = Len(attempts) + 1
        /\ \/ \E r \in Requests : req[r] = "idle" /\ req'[r] = "attempt"
           \/ sched = "wait" /\ sched' = "attempt"

C29_RejectedTriggerNotQueued == [][TriggerRejected /\ AttemptBegins]_vars

\* an on-demand trigger was answered "already_running" while the only
\* attempt ran; that attempt has finished and no other has begun
C29_Witness ==
    /\ InFlight = {}
    /\ Len(attempts) = 1
    /\ Cardinality(DOMAIN job_history) = 1
    /\ last_resp = Resp("execute-now", "already_running")
    /\ \A r \in Requests : req[r] = "idle"

\* C30: the scheduling loop ends only when the scheduler task is cancelled:
\* the step that stops it is the delivery of a cancellation, and after an
\* attempt that failed, timed out or raised, or after reading the settings
\* or computing the fire time raised, the loop goes on (at its top, or in the
\* sleep(60) of `except Exception`)
LoopEnds == loop.pc # "stopped" /\ loop'.pc = "stopped"

LoopGoesOn ==
    /\ loop.pc = "attempt" /\ loop'.pc # "attempt" /\ ~loop.cancelling
          => loop'.pc \in {"top", "sleep"}
    /\ loop.pc = "top" /\ loop'.pc # "top" /\ ~loop.cancelling
          => loop'.pc \in {"sleep", "chunk"}

C30_LoopEndsOnlyOnCancel ==
    /\ [](loop.pc = "stopped" => loop.cancelling)
    /\ [][(LoopEnds => loop.cancelling) /\ LoopGoesOn]_vars

\* execute_scheduled_merge raised with a valid schedule in force: the loop is
\* in the sleep(60) of `except Exception`, not cancelled
C30_Witness ==
    /\ loop.pc = "sleep"
    /\ ~loop.cancelling
    /\ settings.sources = "ok"
    /\ loop.merge_time # "aa:bb"
    /\ ~is_job_running
    /\ loop.wake = now + MinuteTicks

\* C31: in the merged tree no channel element comes after a programme
\* element: all kept channels first, then all kept programmes
C31_ChannelsBeforeProgrammes ==
    \A i, j \in 1..Len(m_acc.root) :
        i < j => ~(m_acc.root[i].tag = "programme"
                   /\ m_acc.root[j].tag = "channel")

\* the file read last ended in a parse error
FileFailed ==
    /\ m_src.pos # "open"
    /\ m_src.cur # <<>>
    /\ m_src.cur[Len(m_src.cur)].tag = "error"

\* C32: a file that fails to parse is skipped and contributes no element to
\* the output: the tree holds what it held when the file was opened
C32_FailedFileContributesNothing ==
    FileFailed => Counts(m_acc) = m_snap

\* the call has obtained source s: its body was downloaded in this call, or
\* its cache file was found current and reused
Obtained(s) ==
    \/ s \in DOMAIN cache_dir /\ cache_dir[s].content = 1
    \/ dl.head[s] = "same"

\* the sources the for loop is through with
Processed == SubSeq(srcs, 1, dl.i - 1)

\* C33: a source whose download fails is excluded and does not stop the run:
\* the list returned holds exactly the sources obtained, in the order they
\* were requested, and the call returns only after every source was
\* processed, a request having been issued for each
C33_FailedSourceSkipped ==
    /\ dl.downloaded = SelectSeq(Processed, Obtained)
    /\ dl.pc = "done" =>
          /\ dl.i = Len(srcs) + 1
          /\ \A k \in 1..Len(srcs) : RequestsFor(dl, srcs[k]) # {}

\* the call has returned; the download of one source failed and a source
\* requested after it is in the list returned
C33_Witness ==
    /\ dl.pc = "done"
    /\ \E j, k \in 1..Len(srcs) :
          /\ j < k
          /\ ~Obtained(srcs[j])
          /\ \E r \in RequestsFor(dl, srcs[j]) : dl.log[r].method = "GET"
          /\ \E n \in 1..Len(dl.downloaded) : dl.downloaded[n] = srcs[k]

HeadsFor(s) == {r \in RequestsFor(dl, s) : dl.log[r].method = "HEAD"}
GetsFor(s)  == {r \in RequestsFor(dl, s) : dl.log[r].method = "GET"}

Revalidation ==
    \A k \in 1..Len(srcs) :
        LET s == srcs[k]
        IN  \* equal sizes: the cache file is reused as it is, no body is
            \* downloaded
            /\ dl.head[s] = "same" =>
                  /\ GetsFor(s) = {}
                  /\ cache_dir[s].content = 0
                  /\ \E n \in 1..Len(dl.downloaded) : dl.downloaded[n] = s
            \* other size, other status, or the metadata request raised: GET
            /\ dl.head[s] \in HeadAnswers \ {"same"} => GetsFor(s) # {}
            \* processed without a metadata request (no cache file): GET
            /\ (k < dl.i /\ HeadsFor(s) = {}) => GetsFor(s) # {}

FirstRequest ==
    (dl.pc = "next" /\ dl.i <= Len(srcs) /\ dl' # dl) =>
        /\ dl'.pc = IF srcs[dl.i] \in DOMAIN cache_dir THEN "head" ELSE "get"
        /\ Len(dl'.log) = Len(dl.log) + 1
        /\ dl'.log[Len(dl'.log)].source = srcs[dl.i]

\* C34: a source with a cache file is revalidated by a metadata request:
\* equal sizes reuse the cache file without a download; another size, a
\* non-success status or an error leads to a full download; a source with
\* no cache file is downloaded in full, without a metadata request
C34_Revalidation == []Revalidation /\ [][FirstRequest]_vars

\* the call has returned: one source was reused after its metadata request,
\* another was downloaded after its metadata request did not match
C34_Witness ==
    /\ dl.pc = "done"
    /\ \E s \in Sources : dl.head[s] = "same" /\ GetsFor(s) = {}
    /\ \E s \in Sources :
          dl.head[s] \in HeadAnswers \ {"same"} /\ GetsFor(s) # {}

Sampling == {t \in Tasks : att[t].monitor = "sampling"}

\* C35: on every exit path the memory sampler is stopped before the attempt
\* ends: a sampling task runs only for an attempt in flight, it has ended
\* when stop() has returned (the attempt is sending its notification), and
\* there is at most one
C35_SamplerStopped ==
    /\ Sampling \subseteq InFlight
    /\ Cardinality(Sampling) <= 1
    /\ \A t \in Tasks : att[t].phase \in Notifying => att[t].monitor = "stopped"
    /\ \A t \in Tasks : att[t].phase = "none" => att[t].monitor = "off"

\* the scheduler was stopped while its attempt ran: the attempt has ended
\* on the cancellation path, recorded as cancelled, and no sampler is left
C35_Witness ==
    /\ sched = "stopped"
    /\ att[SchedTask].phase = "none"
    /\ Sampling = {}
    /\ \E j \in DOMAIN job_history : job_history[j].error_message = "cancelled"

\* the attempt of task t has its "running" record in the table
HasRunning(rows, t) ==
    /\ att[t].job_id \in DOMAIN rows
    /\ rows[att[t].job_id].status = "running"

\* the merge is about to begin, is running, has promoted, or has timed out,
\* and no terminal record is saved yet
BeforeTerminal == {"validating", "downloading", "stop_ok", "stop_timeout"}

PipelineStep ==
    (\/ tmp_dir' # tmp_dir
     \/ current_dir' # current_dir
     \/ archive_dir' # archive_dir
     \/ archives' # archives)
    => \E t \in Tasks : /\ att[t].phase \in {"validating", "downloading"}
                        /\ HasRunning(job_history, t)

CrashStep ==
    (up /\ ~up')
    => \A t \in Tasks : att[t].phase \in BeforeTerminal
                          => HasRunning(job_history', t)

BadConfig(t) ==
    \/ att[t].merge_timeout # "ok"
    \/ att[t].error \in {"invalid_timeout", "invalid_sources"}

\* C37: an attempt that read a selected_sources value that is not JSON or a
\* merge_timeout that is not a positive integer is recorded failed, with an
\* error message
C37_BadSettingFails ==
    [][\A t \in Tasks :
          (/\ BadConfig(t)
           /\ att[t].phase \in {"stop_ok", "stop_timeout", "stop_fail",
                                 "stop_cancel"}
           /\ job_history' # job_history)
          => /\ job_history'[att[t].job_id].status = "failed"
             /\ job_history'[att[t].job_id].error_message # NoValue]_vars

\* a step of POST /api/merge/save that promotes
PromoteStep == saved' = "success" /\ promotions' = promotions + 1

\* C38: a successful promote copies: the temp output is still in the temp
\* directory with the content it had, the temp directory is unchanged, and
\* the new current file has that content
C38_PromoteCopies ==
    [][PromoteStep
       => LET f == settings.output_filename
          IN  /\ f \in DOMAIN tmp_dir
              /\ tmp_dir' = tmp_dir
              /\ f \in DOMAIN current_dir'
              /\ current_dir'[f].content = tmp_dir[f].content]_vars

\* after the second promotion: the temp output and the current file hold
\* the same content, and the file promoted before is archived
C38_Witness ==
    /\ saved = "success"
    /\ promotions = 2
    /\ DOMAIN archive_dir # {}
    /\ settings.output_filename \in DOMAIN tmp_dir
    /\ settings.output_filename \in DOMAIN current_dir
    /\ current_dir[settings.output_filename].content
          = tmp_dir[settings.output_filename].content

\* C39: the terminal status an attempt has persisted is never replaced by
\* another: while the attempt sends its notification, whatever happens, the
\* status of its record stays the one it saved
C39_TerminalNotRewritten ==
    [][\A t \in Tasks :
          att[t].phase \in Notifying
          => /\ att[t].job_id \in DOMAIN job_history'
             /\ job_history'[att[t].job_id].status
                   = job_history[att[t].job_id].status]_vars

\* the phases of an attempt whose merge was ended by the timeout
TimedOut == {"stop_timeout", "notify_timeout"}

\* a step that promotes, archives or writes an archive row
StoreChanges ==
    \/ current_dir' # current_dir
    \/ archive_dir' # archive_dir
    \/ archives' # archives
    \/ promotions' # promotions

\* C40: an attempt that ends with status timeout has promoted nothing: the
\* status timeout is saved only by an attempt whose merge timed out, such an
\* attempt has written no output, and no step up to its timeout or after it
\* changes the current directory, the archive directory or the archive rows
C40_TimeoutPromotesNothing ==
    /\ [](\A t \in Tasks : att[t].phase \in TimedOut => att[t].content = 0)
    /\ [][\A t \in Tasks :
             (att[t].phase \in TimedOut \/ att'[t].phase \in TimedOut)
             => ~StoreChanges]_vars
    /\ [][\A t \in Tasks :
             (/\ att[t].phase # "none"
              /\ job_history' # job_history
              /\ job_history'[att[t].job_id].status = "timeout")
             => att[t].phase = "stop_timeout"]_vars
    /\ [][StoreChanges
          => \E t \in Tasks : /\ att[t].phase = "downloading"
                              /\ att'[t].phase \in {"stop_ok", "stop_fail"}]_vars

\* an attempt has ended with status timeout after an earlier attempt had
\* promoted: the promoted file is the current file, nothing is archived
C40_Witness ==
    /\ InFlight = {}
    /\ Len(attempts) = 2
    /\ job_history[attempts[2]].status = "timeout"
    /\ promotions = 1
    /\ DOMAIN current_dir # {}
    /\ DOMAIN archive_dir = {}

====
